---- MODULE Spec2Model ----
(***************************************************************************)
(* One JobsQueue lane (frontend/src/components/JobsQueue.tsx) of one       *)
(* browser session, the HTTP requests it has in flight, and the backend's  *)
(* copy of the lane.  Indices are 0-based as in the source.                *)
(*                                                                         *)
(* The manufacturing board (frontend/src/components/ManufacturingTab.tsx)  *)
(* of one browser session is a second state machine, BoardSpec.  The two   *)
(* components share no state: each specification leaves the variables of   *)
(* the other component at their initial values.  role, phase, loading,     *)
(* draggingId, drag, net, sent and otherEdits are read per component.      *)
(***************************************************************************)
EXTENDS Integers, Sequences, FiniteSets, TLC

\* ---------------------------------------------------------------- bounds
MaxJobs == 3          \* jobs of the lane, ids 1..MaxJobs
MaxUsers == 2         \* user ids 1..MaxUsers
MaxInFlight == 2      \* requests of the session that may be outstanding
MaxOtherEdits == 1    \* edits made to the lane by other sessions
MaxRequests == 3      \* requests the session issues in one run
MaxMoves == 2         \* local moves (drag moves and button moves) in one run
MaxDrags == 1         \* drag gestures in one run
MaxShopChanges == 1   \* changes of the shop prop in one run

\* ---------------------------------------------------------------- values
NULL == 0 - 1         \* JavaScript null of a "number | null" field
UNDEF == 0 - 2        \* JavaScript undefined

JobIds == 1..MaxJobs
UserIds == 1..MaxUsers
Roles == {"student", "lead", "admin"}

\* The signed-in user (useAuth): the other sessions use the smaller ids.
SessionUserId == MaxUsers

Job(id, holder, pos) == [id |-> id, claimed_by_id |-> holder, queue_position |-> pos]

\* What reading a slot past the end of an array yields.
Undefined == Job(UNDEF, UNDEF, UNDEF)

Min(a, b) == IF a < b THEN a ELSE b
Max(a, b) == IF a > b THEN a ELSE b

VARIABLES
  role,         \* user.role
  shop,         \* the shop prop: the lane the component shows
  phase,        \* "created" (rendered, effect not run), "mounted", "crashed",
                \*   "unmounted" (torn down by the parent)
  activeJobs,   \* useState: the rendered unclaimed rows
  activeRef,    \* activeRef.current
  claimedJobs,  \* useState
  loading,      \* useState
  dragIndex,    \* dragIndex.current, NULL or an index
  draggingId,   \* useState, NULL or a job id
  drag,         \* the browser's drag-and-drop operation: "none", "active", "dropped"
  net,          \* the session's requests in flight, in the order they were issued
  srvOrder,     \* backend: ids of the unclaimed jobs, by queue_position
  srvHolder,    \* backend: job id -> claiming user, NULL when unclaimed or deleted
  otherEdits,   \* number of edits other sessions have made
  sent,         \* history: number of requests the session has issued
  moves,        \* history: number of local moves made
  drags,        \* history: number of drag gestures begun
  gStart,       \* history: ids of activeRef when the current gesture began
  gExpect,      \* history: gStart's jobs with the gesture's moves applied
  gClean,       \* history: no response was applied during the current gesture
  dragRow,      \* the browser's drag source: NULL for none, the id of the row the
                \*   drag began on, Detached once that row's node has left the table
  dropRow,      \* the browser's drop target: the id of the row whose last dragover
                \*   was cancelled (preventDefault), NULL when a release drops nothing
  uncommitted,  \* history: a drag move changed the order and no commit carried it
  shown,        \* history: where activeRef is from: "initial", "local" (moved here),
                \*   or the response that set it: "get", "reorder", "rollback"
  overrode,     \* history: that response replaced a locally moved, different order
  rb,           \* history: the last refetch a failed reorder triggered, once processed
  settled,      \* history: a response to a request issued for the current shop has
                \*   been applied since the shop prop last changed
  shopChanges,  \* history: number of changes of the shop prop
  parts,        \* board, useState: the fetched parts
  drawerPart,   \* board, useState: null or the part the detail drawer was opened on
  form,         \* board, useState of the PartDrawer: the assignees of its form state
  drawerInParts, \* board: drawerPart is (===) an object of the parts array
  etaModal,     \* board, useState: null or [part, mode] of the ETA capture step,
                \*   with the busy state of the EtaModal rendered for it
  toast,        \* board, useState: null or the message shown
  transfer,     \* board: Number(event.dataTransfer.getData("text/plain")) of the drag
  dragSource,   \* board: id of the card the browser's drag began on, NULL for none
  attached,     \* board: that card's node is still in the document
  srvParts,     \* backend: the parts as it lists them for this session
  fetched,      \* board, history: number of GET manufacturing/parts issued
  viewPrefs,    \* board, useState: the view preferences
  saving,       \* board, useState of the PartDrawer: a save is outstanding
  stored,       \* board: the item of localStorage under manufacturing_view_prefs
  lookups,      \* board, useState: the users that can be assigned
  filters,      \* board, useState: the type, priority and search filters
  modalOpen,    \* board, useState: the CreateModal is rendered
  submitting,   \* board, useState: a create request is outstanding
  uploading,    \* board, useState of the PartDrawer: the file types being uploaded
  ops,          \* board, history: number of actions of the user
  viewOps       \* board, history: number of changes of the filters and preferences

client == <<role, phase, activeJobs, activeRef, claimedJobs, loading, dragIndex,
            draggingId, drag>>
server == <<srvOrder, srvHolder, otherEdits>>
budget == <<sent, moves, drags>>
gesture == <<gStart, gExpect, gClean, dragRow, dropRow>>
view == <<uncommitted, shown, overrode, rb, settled>>
lanes == <<shop, shopChanges>>
history == <<budget, gesture, view>>
board == <<parts, drawerPart, form, drawerInParts, etaModal, toast, transfer, dragSource, attached, srvParts,
           fetched, viewPrefs, saving, stored, lookups, filters, modalOpen, submitting,
           uploading, ops, viewOps>>
vars == <<client, net, server, history, board, lanes>>

\* ---------------------------------------------------------------- arrays
Ids(jobs) == [i \in 1..Len(jobs) |-> jobs[i].id]

\* !x and x as a condition, for a number | null | undefined.
Truthy(v) == v # NULL /\ v # UNDEF /\ v # 0

\* The start index of Array.prototype.splice: a negative start counts from the
\* end, and the result is clamped to 0..length.
SpliceStart(arr, start) ==
  IF start < 0 THEN Max(Len(arr) + start, 0) ELSE Min(start, Len(arr))

\* Array.prototype.splice(start, 1): the array left, and the first removed
\* element ([dragged] = ... destructures undefined from an empty result).
SpliceOut(arr, start) ==
  LET k == SpliceStart(arr, start)
  IN  IF k < Len(arr)
        THEN [rest |-> SubSeq(arr, 1, k) \o SubSeq(arr, k + 2, Len(arr)),
              removed |-> arr[k + 1]]
        ELSE [rest |-> arr, removed |-> Undefined]

\* Mutant: the item is inserted one place too far.
SpliceInAfter(arr, start, item) ==
  LET k == Min(SpliceStart(arr, start) + 1, Len(arr))
  IN  SubSeq(arr, 1, k) \o <<item>> \o SubSeq(arr, k + 1, Len(arr))

\* Array.prototype.splice(start, 0, item): start is clamped to the length.
SpliceIn(arr, start, item) ==
  LET k == SpliceStart(arr, start)
  IN  SubSeq(arr, 1, k) \o <<item>> \o SubSeq(arr, k + 1, Len(arr))

HasUndefined(jobs) == \E i \in 1..Len(jobs) : jobs[i] = Undefined


RemoveAt(seq, i) == SubSeq(seq, 1, i - 1) \o SubSeq(seq, i + 1, Len(seq))

\* ---------------------------------------------------------------- requests
\* kind, shop, ids (ordered_ids), job (the id in the path), and the server's answer
\* (phase, ok, data) are the request; src, pre and opt are history: the handler
\* that issued it, the order held before the gesture it commits, and, on the
\* refetch a failed reorder triggers, that reorder's ordered_ids.
NewReq(kind, ids, job, src, pre, opt) ==
  [kind |-> kind, shop |-> shop, ids |-> ids, job |-> job, phase |-> "sent",
   ok |-> FALSE, data |-> <<>>, src |-> src, pre |-> pre, opt |-> opt, stale |-> FALSE]

GetReq(src) == NewReq("get", <<>>, NULL, src, <<>>, <<>>)

\* The requests left in flight when the response to net[i] has been applied:
\* those issued before it are marked as overtaken (history).
Overtaking(i) ==
  [k \in 1..(Len(net) - 1) |->
     IF k < i THEN [net[k] EXCEPT !.stale = TRUE] ELSE net[k + 1]]

NoRollback == [done |-> "none", pre |-> <<>>, opt |-> <<>>]

\* ---------------------------------------------------------------- client
\* Mutant: the role is not checked.
CanReorderAnyone == TRUE

CanReorder == role = "lead" \/ role = "admin"

\* A state setter does nothing once the component is unmounted.
SetState(cur, next) == IF phase = "mounted" THEN next ELSE cur

\* Mutants: the claimed jobs are not filtered out; the claimed list is not renewed.
SplitActiveAll(data) == data
SplitClaimedKeepOld(data) == claimedJobs

SplitActive(data) == SelectSeq(data, LAMBDA job : ~Truthy(job.claimed_by_id))
SplitClaimed(data) == SelectSeq(data, LAMBDA job : Truthy(job.claimed_by_id))

\* updateActive(next)
UpdateActive(next) ==
  /\ activeRef' = next
  /\ activeJobs' = SetState(activeJobs, next)

Rows == 0..(Len(activeJobs) - 1)
RowIds(jobs) == {jobs[i].id : i \in 1..Len(jobs)}

\* What is left of a row node when the rows of next are rendered.  Rows are keyed
\* by the id of their job (key={j.id}): a row whose id is not rendered is taken
\* out of the document, and one rendered for that id later on is another node.
Detached == 0
KeptRow(row, next) ==
  IF phase = "mounted" /\ row \notin {NULL, Detached} /\ row \notin RowIds(next)
    THEN Detached ELSE row
KeptTarget(row, next) ==
  IF KeptRow(row, next) = Detached THEN NULL ELSE row

\* splitJobs(data), for the response to r.  A response applied during a gesture
\* ends the gesture's clean history.
SplitJobs(r) ==
  /\ UpdateActive(SplitActive(r.data))
  /\ claimedJobs' = SetState(claimedJobs, SplitClaimed(r.data))
  /\ gClean' = (gClean /\ dragIndex = NULL)
  /\ gExpect' = IF dragIndex = NULL THEN gExpect ELSE <<>>
  /\ uncommitted' = FALSE
  /\ shown' = IF r.src = "rollback" THEN "rollback" ELSE r.kind
  /\ overrode' = (shown = "local" /\ Ids(activeRef) # Ids(SplitActive(r.data)))
  /\ rb' = IF r.src = "rollback"
             THEN [done |-> "ok", pre |-> r.pre, opt |-> r.opt] ELSE NoRollback
  /\ settled' = (settled \/ r.shop = shop)
  /\ dragRow' = KeptRow(dragRow, SplitActive(r.data))
  /\ dropRow' = KeptTarget(dropRow, SplitActive(r.data))
  /\ UNCHANGED gStart

\* What a local move (a drag move, a button move) does to the history.
MovedLocally ==
  /\ moves < MaxMoves
  /\ moves' = moves + 1
  /\ shown' = "local"
  /\ overrode' = FALSE
  /\ rb' = NoRollback
  /\ UNCHANGED settled

\* refresh(), up to its await: the loading flag and the GET it sends.
Refresh(others, req) ==
  /\ loading' = SetState(loading, TRUE)
  /\ net' = Append(others, req)
  /\ sent' = sent + 1

\* Mutant: the order of the ref is sent, not the order passed in.
PersistOrderOfRef(nextOrder, src, pre) ==
  /\ net' = Append(net, NewReq("reorder", Ids(activeRef), NULL, src, pre, <<>>))
  /\ sent' = sent + 1
  /\ UNCHANGED loading

\* persistOrder(nextOrder), up to its await.  nextOrder.map(job => job.id)
\* throws inside the try block on an undefined slot, which the catch block
\* answers with refresh().
PersistOrder(nextOrder, src, pre) ==
  IF HasUndefined(nextOrder)
    THEN Refresh(net, GetReq("rollback"))
    ELSE /\ net' = Append(net, NewReq("reorder", Ids(nextOrder), NULL, src, pre, <<>>))
         /\ sent' = sent + 1
         /\ UNCHANGED loading

Interactive == phase = "mounted" /\ drag = "none"
MayIssue == Len(net) < MaxInFlight /\ sent < MaxRequests

\* useEffect(() => { refresh(); setInterval(refresh, 10000); ... }, [shop])
MountEffect ==
  /\ phase = "created"
  /\ phase' = "mounted"
  /\ loading' = TRUE
  /\ net' = Append(net, GetReq("refresh"))
  /\ sent' = sent + 1
  /\ UNCHANGED <<role, activeJobs, activeRef, claimedJobs, dragIndex, draggingId, drag,
                 server, moves, drags, gesture, view>>

\* setInterval(refresh, 10000)
PollTick ==
  /\ phase = "mounted" /\ drag # "dropped" /\ MayIssue
  /\ Refresh(net, GetReq("refresh"))
  /\ UNCHANGED <<role, phase, activeJobs, activeRef, claimedJobs, dragIndex, draggingId,
                 drag, server, moves, drags, gesture, view>>

\* <button className="refresh-btn" onClick={refresh} disabled={loading}>
RefreshClick ==
  /\ Interactive /\ ~loading /\ MayIssue
  /\ Refresh(net, GetReq("refresh"))
  /\ UNCHANGED <<role, phase, activeJobs, activeRef, claimedJobs, dragIndex, draggingId,
                 drag, server, moves, drags, gesture, view>>

\* The parent stops rendering the lane (another tab is opened): the effect's
\* cleanup clears the interval, the requests in flight stay in flight.
Unmount ==
  /\ Interactive
  /\ phase' = "unmounted"
  /\ UNCHANGED <<role, activeJobs, activeRef, claimedJobs, loading, dragIndex, draggingId,
                 drag, net, server, history>>

\* A single-item call (removeJob, claimJob, unclaimJob) up to its await.
Mutate(kind, id) ==
  /\ net' = Append(net, NewReq(kind, <<>>, id, kind, <<>>, <<>>))
  /\ sent' = sent + 1
  /\ UNCHANGED <<role, phase, activeJobs, activeRef, claimedJobs, loading, dragIndex,
                 draggingId, drag, server, moves, drags, gesture, view>>

\* The Remove button of an active or a claimed row.
RemoveJob(id) ==
  /\ Interactive /\ MayIssue
  /\ id \in RowIds(activeJobs) \cup RowIds(claimedJobs)
  /\ Mutate("delete", id)

\* The Claim button of an active row.
ClaimJob(jobId) ==
  /\ Interactive /\ MayIssue
  /\ jobId \in RowIds(activeJobs)
  /\ Mutate("claim", jobId)

\* The Unclaim button is rendered for a lead, an admin and the claiming user.
UnclaimJob(jobId) ==
  /\ Interactive /\ MayIssue
  /\ \E i \in 1..Len(claimedJobs) :
       /\ claimedJobs[i].id = jobId
       /\ (role = "lead" \/ role = "admin" \/ claimedJobs[i].claimed_by_id = SessionUserId)
  /\ Mutate("unclaim", jobId)

\* The stable move of the specification: the item at index from goes to index
\* to, every other item keeps its place relative to the others.
MoveItem(s, from, to) ==
  IF from \notin 0..(Len(s) - 1) \/ to \notin 0..(Len(s) - 1) THEN s
  ELSE [k \in 1..Len(s) |->
          IF k - 1 = to THEN s[from + 1]
          ELSE IF from < to /\ k - 1 >= from /\ k - 1 < to THEN s[k + 1]
          ELSE IF to < from /\ k - 1 > to /\ k - 1 <= from THEN s[k - 1]
          ELSE s[k]]

\* onDragStart of a row.  The browser starts a drag-and-drop operation also for
\* a row that is not draggable (a drag of the Download link bubbles to the row).
HandleDragStart(index) ==
  /\ Interactive /\ index \in Rows /\ drags < MaxDrags
  /\ drag' = "active"
  /\ drags' = drags + 1
  /\ dragRow' = activeJobs[index + 1].id
  /\ dropRow' = NULL
  /\ IF ~CanReorder
       THEN UNCHANGED <<dragIndex, draggingId, gStart, gExpect, gClean>>
       ELSE /\ dragIndex' = index
            /\ draggingId' = IF index < Len(activeRef) /\ activeRef[index + 1] # Undefined
                               THEN activeRef[index + 1].id ELSE NULL
            /\ gStart' = Ids(activeRef)
            /\ gExpect' = activeRef
            /\ gClean' = TRUE
  /\ UNCHANGED <<role, phase, activeJobs, activeRef, claimedJobs, loading, net, server,
                 sent, moves, view>>

\* Mutant: every drag move is committed at once.
HandleDragOverCommits(index) ==
  /\ phase = "mounted" /\ drag = "active" /\ index \in Rows
  /\ IF ~CanReorder \/ dragIndex = NULL \/ index = dragIndex
       THEN /\ dropRow' = NULL
            /\ UNCHANGED <<phase, activeJobs, activeRef, dragIndex, drag, gExpect, moves,
                           view, loading, net, sent, dragRow>>
       ELSE LET cut == SpliceOut(activeRef, dragIndex)
                updated == SpliceIn(cut.rest, index, cut.removed)
            IN  /\ MayIssue
                /\ dropRow' = IF HasUndefined(updated) THEN NULL
                                                       ELSE activeJobs[index + 1].id
                /\ dragIndex' = index
                /\ UpdateActive(updated)
                /\ PersistOrder(updated, "drop", gStart)
                /\ phase' = IF HasUndefined(updated) THEN "crashed" ELSE phase
                /\ drag' = IF HasUndefined(updated) THEN "none" ELSE drag
                /\ gExpect' = IF gClean THEN MoveItem(gExpect, dragIndex, index) ELSE gExpect
                /\ uncommitted' = FALSE
                /\ MovedLocally
                /\ dragRow' = IF HasUndefined(updated) THEN Detached ELSE dragRow
  /\ UNCHANGED <<role, claimedJobs, draggingId, server, drags, gStart, gClean>>

\* onDragOver of a row.  The handler returns before event.preventDefault() for
\* an actor that may not reorder, with no drag index, and on the row the index
\* names: a release over that row drops nothing.  Past the return it cancels the
\* event, which makes the row a drop target, and moves the dragged item.  An
\* undefined slot in activeJobs makes the next render throw (key={j.id}), which
\* unmounts the component, the row the drag began on with it: no error boundary
\* holds it.
HandleDragOver(index) ==
  /\ phase = "mounted" /\ drag = "active" /\ index \in Rows
  /\ IF ~CanReorder \/ dragIndex = NULL \/ index = dragIndex
       THEN /\ dropRow' = NULL
            /\ UNCHANGED <<phase, activeJobs, activeRef, dragIndex, drag, gExpect, moves,
                           view, dragRow>>
       ELSE LET cut == SpliceOut(activeRef, dragIndex)
                updated == SpliceIn(cut.rest, index, cut.removed)
            IN  /\ dropRow' = IF HasUndefined(updated) THEN NULL
                                                       ELSE activeJobs[index + 1].id
                /\ dragIndex' = index
                /\ UpdateActive(updated)
                /\ phase' = IF HasUndefined(updated) THEN "crashed" ELSE phase
                /\ drag' = IF HasUndefined(updated) THEN "none" ELSE drag
                /\ gExpect' = IF gClean THEN MoveItem(gExpect, dragIndex, index) ELSE gExpect
                /\ uncommitted' = TRUE
                /\ MovedLocally
                /\ dragRow' = IF HasUndefined(updated) THEN Detached ELSE dragRow
  /\ UNCHANGED <<role, claimedJobs, loading, draggingId, net, server, sent, drags,
                 gStart, gClean>>

\* onDrop of a row; the browser fires dragend next.  The browser delivers the
\* drop only to a row whose last dragover was cancelled.
HandleDrop ==
  /\ phase = "mounted" /\ drag = "active" /\ dropRow # NULL /\ MayIssue
  /\ drag' = "dropped"
  /\ dropRow' = NULL
  /\ IF ~CanReorder \/ dragIndex = NULL
       THEN UNCHANGED <<dragIndex, draggingId, loading, net, sent, uncommitted>>
       ELSE /\ dragIndex' = NULL
            /\ draggingId' = NULL
            /\ PersistOrder(activeRef, "drop", gStart)
            /\ uncommitted' = FALSE
  /\ UNCHANGED <<role, phase, activeJobs, activeRef, claimedJobs, server, moves, drags,
                 gStart, gExpect, gClean, dragRow, shown, overrode, rb, settled>>

\* The node of the row the drag began on is still in the table.
RowMounted == dragRow \notin {NULL, Detached}

\* onDragEnd of a row: after a drop, and when the gesture ends without one.  The
\* browser fires dragend at the row the drag began on.
DragEnd ==
  /\ phase = "mounted" /\ drag \in {"active", "dropped"} /\ RowMounted
  /\ drag' = "none"
  /\ dragIndex' = NULL
  /\ draggingId' = NULL
  /\ gStart' = <<>> /\ gExpect' = <<>> /\ gClean' = TRUE
  /\ dragRow' = NULL /\ dropRow' = NULL
  /\ UNCHANGED <<role, phase, activeJobs, activeRef, claimedJobs, loading, net, server,
                 budget, view>>

\* The drag ends when a response has taken its row out of the table, whether or
\* not a row of the same job has been rendered since: dragend is fired at a node
\* that is no longer in the document and reaches no handler.
DragEndDetached ==
  /\ phase = "mounted" /\ drag \in {"active", "dropped"} /\ dragRow = Detached
  /\ drag' = "none"
  /\ gStart' = <<>> /\ gExpect' = <<>> /\ gClean' = TRUE
  /\ dragRow' = NULL /\ dropRow' = NULL
  /\ UNCHANGED <<role, phase, activeJobs, activeRef, claimedJobs, loading, dragIndex,
                 draggingId, net, server, budget, view>>

\* The up and down buttons of a row call moveRow(index, -1) and moveRow(index, 1).
MoveRow(index, delta) ==
  /\ Interactive /\ MayIssue /\ index \in Rows
  /\ LET newIndex == Min(Max(index + delta, 0), Len(activeRef) - 1)
         cut == SpliceOut(activeRef, index)
         updated == SpliceIn(cut.rest, newIndex, cut.removed)
     IN  IF ~CanReorder \/ newIndex = index
           THEN UNCHANGED <<activeJobs, activeRef, loading, net, sent, moves, view>>
           ELSE /\ UpdateActive(updated)
                /\ PersistOrder(updated, "moveRow", Ids(activeRef))
                /\ uncommitted' = FALSE
                /\ MovedLocally
  /\ UNCHANGED <<role, phase, claimedJobs, dragIndex, draggingId, drag, server, drags,
                 gesture>>

\* ---------------------------------------------------------------- responses
Answered(i, kind) ==
  /\ i \in 1..Len(net)
  /\ net[i].kind = kind /\ net[i].phase = "answered"
  /\ phase # "created" /\ drag # "dropped"

\* Mutant: the catch block empties the lists.
RefreshDoneClears(i) ==
  /\ Answered(i, "get")
  /\ net' = IF net[i].ok THEN Overtaking(i) ELSE RemoveAt(net, i)
  /\ loading' = SetState(loading, FALSE)
  /\ IF net[i].ok
       THEN SplitJobs(net[i])
       ELSE /\ rb' = IF net[i].src = "rollback"
                       THEN [done |-> "failed", pre |-> net[i].pre, opt |-> net[i].opt]
                       ELSE rb
            /\ activeRef' = <<>>
            /\ activeJobs' = SetState(activeJobs, <<>>)
            /\ claimedJobs' = SetState(claimedJobs, <<>>)
            /\ dragRow' = KeptRow(dragRow, <<>>)
            /\ dropRow' = KeptTarget(dropRow, <<>>)
            /\ UNCHANGED <<gStart, gExpect, gClean, uncommitted, shown, overrode,
                           settled>>
  /\ UNCHANGED <<role, phase, dragIndex, draggingId, drag, server, budget>>

\* refresh() from its await on: try { splitJobs } catch { alert } finally.
RefreshDone(i) ==
  /\ Answered(i, "get")
  /\ net' = IF net[i].ok THEN Overtaking(i) ELSE RemoveAt(net, i)
  /\ loading' = SetState(loading, FALSE)
  /\ IF net[i].ok
       THEN SplitJobs(net[i])
       ELSE /\ rb' = IF net[i].src = "rollback"
                       THEN [done |-> "failed", pre |-> net[i].pre, opt |-> net[i].opt]
                       ELSE rb
            /\ UNCHANGED <<activeJobs, activeRef, claimedJobs, gesture, uncommitted, shown,
                           overrode, settled>>
  /\ UNCHANGED <<role, phase, dragIndex, draggingId, drag, server, budget>>

\* persistOrder() from its await on: splitJobs, or alert and refresh(), the
\* refresh of the render that called persistOrder, with that render's shop.
PersistOrderDone(i) ==
  /\ Answered(i, "reorder")
  /\ net[i].ok \/ sent < MaxRequests
  /\ IF net[i].ok
       THEN /\ SplitJobs(net[i])
            /\ net' = Overtaking(i)
            /\ UNCHANGED <<loading, sent>>
       ELSE /\ Refresh(RemoveAt(net, i),
                       [NewReq("get", <<>>, NULL, "rollback", net[i].pre, net[i].ids)
                          EXCEPT !.shop = net[i].shop])
            /\ UNCHANGED <<activeJobs, activeRef, claimedJobs, gesture, view>>
  /\ UNCHANGED <<role, phase, dragIndex, draggingId, drag, server, moves, drags>>

\* Mutant: the lane is refetched after a failure too.
MutateDoneAlwaysRefetch(i, kind) ==
  /\ Answered(i, kind)
  /\ sent < MaxRequests
  /\ Refresh(RemoveAt(net, i), [GetReq(kind) EXCEPT !.shop = net[i].shop])
  /\ UNCHANGED <<role, phase, activeJobs, activeRef, claimedJobs, dragIndex, draggingId,
                 drag, server, moves, drags, gesture, view>>

\* removeJob, claimJob and unclaimJob from their await on: refresh(), or alert.
MutateDone(i, kind) ==
  /\ Answered(i, kind)
  /\ ~net[i].ok \/ sent < MaxRequests
  /\ IF net[i].ok
       THEN Refresh(RemoveAt(net, i), [GetReq(kind) EXCEPT !.shop = net[i].shop])
       ELSE /\ net' = RemoveAt(net, i)
            /\ UNCHANGED <<loading, sent>>
  /\ UNCHANGED <<role, phase, activeJobs, activeRef, claimedJobs, dragIndex, draggingId,
                 drag, server, moves, drags, gesture, view>>

RemoveJobDone(i) == MutateDone(i, "delete")
ClaimJobDone(i) == MutateDone(i, "claim")
UnclaimJobDone(i) == MutateDone(i, "unclaim")

\* ---------------------------------------------------------------- backend
\* The backend (FastAPI) is not part of the frontend sources: its lane is
\* modelled from the interface the specification gives.
AllIds == [i \in 1..MaxJobs |-> i]

InOrder(order, j) == \E k \in 1..Len(order) : order[k] = j
PosOf(order, j) == (CHOOSE k \in 1..Len(order) : order[k] = j) - 1
Exists(order, holder, j) == InOrder(order, j) \/ holder[j] # NULL

ServerJob(order, holder, j) ==
  IF InOrder(order, j) THEN Job(j, NULL, PosOf(order, j)) ELSE Job(j, holder[j], 0)

\* The canonical list: the unclaimed jobs by queue_position, then the claimed.
ListByPosition(order, holder) ==
  LET claimed == SelectSeq(AllIds, LAMBDA j : holder[j] # NULL)
      all == order \o claimed
  IN  [k \in 1..Len(all) |-> ServerJob(order, holder, all[k])]

\* The list in the order of the ids (the order of creation).
ListById(order, holder) ==
  LET all == SelectSeq(AllIds, LAMBDA j : Exists(order, holder, j))
  IN  [k \in 1..Len(all) |-> ServerJob(order, holder, all[k])]

Listings(order, holder) == {ListByPosition(order, holder), ListById(order, holder)}

\* The jobs 1..MaxJobs are those of the shop the lane is created for; the other
\* shop's lane holds one unclaimed job, which the backend lets no session change:
\* a request to claim or remove it fails.
HomeShop == "cnc"
OtherShop == "printing"
ShopOfJob(id) == IF id \in JobIds THEN HomeShop ELSE OtherShop
OtherLane == <<Job(MaxJobs + 1, NULL, 0)>>
LaneIds == JobIds \cup {MaxJobs + 1}

\* POST jobs/reorder: the named unclaimed jobs in the order given, then the
\* unclaimed jobs the request does not name, in their old order.
Reordered(order, ids) ==
  SelectSeq(ids, LAMBDA j : InOrder(order, j))
    \o SelectSeq(order, LAMBDA j : \A k \in 1..Len(ids) : ids[k] # j)

Answer(i, ok, data) ==
  net' = [net EXCEPT ![i].phase = "answered", ![i].ok = ok, ![i].data = data]

Sent(i) == i \in 1..Len(net) /\ net[i].phase = "sent"

\* The request fails (rejected by the backend, or lost): the lane is unchanged.
ServerReject(i) ==
  /\ Sent(i)
  /\ Answer(i, FALSE, <<>>)
  /\ UNCHANGED <<client, server, history>>

ServerGet(i) ==
  /\ Sent(i) /\ net[i].kind = "get"
  /\ \E data \in (IF net[i].shop = HomeShop THEN Listings(srvOrder, srvHolder)
                                             ELSE {OtherLane}) : Answer(i, TRUE, data)
  /\ UNCHANGED <<client, server, history>>

ServerReorder(i) ==
  /\ Sent(i) /\ net[i].kind = "reorder"
  /\ srvOrder' = IF net[i].shop = HomeShop THEN Reordered(srvOrder, net[i].ids)
                                            ELSE srvOrder
  /\ Answer(i, TRUE, IF net[i].shop = HomeShop THEN ListByPosition(srvOrder', srvHolder)
                                               ELSE OtherLane)
  /\ UNCHANGED <<client, srvHolder, otherEdits, history>>

ServerClaim(i) ==
  /\ Sent(i) /\ net[i].kind = "claim"
  /\ net[i].job \in JobIds /\ InOrder(srvOrder, net[i].job)
  /\ srvOrder' = SelectSeq(srvOrder, LAMBDA j : j # net[i].job)
  /\ srvHolder' = [srvHolder EXCEPT ![net[i].job] = SessionUserId]
  /\ Answer(i, TRUE, <<>>)
  /\ UNCHANGED <<client, otherEdits, history>>

ServerUnclaim(i) ==
  /\ Sent(i) /\ net[i].kind = "unclaim"
  /\ net[i].job \in JobIds /\ srvHolder[net[i].job] # NULL
  /\ srvOrder' = Append(srvOrder, net[i].job)
  /\ srvHolder' = [srvHolder EXCEPT ![net[i].job] = NULL]
  /\ Answer(i, TRUE, <<>>)
  /\ UNCHANGED <<client, otherEdits, history>>

ServerDelete(i) ==
  /\ Sent(i) /\ net[i].kind = "delete"
  /\ net[i].job \in JobIds /\ Exists(srvOrder, srvHolder, net[i].job)
  /\ srvOrder' = SelectSeq(srvOrder, LAMBDA j : j # net[i].job)
  /\ srvHolder' = [srvHolder EXCEPT ![net[i].job] = NULL]
  /\ Answer(i, TRUE, <<>>)
  /\ UNCHANGED <<client, otherEdits, history>>

\* Another session reorders the lane: it moves one job to the front.
OtherReorder(k) ==
  /\ otherEdits < MaxOtherEdits
  /\ k \in 2..Len(srvOrder)
  /\ srvOrder' = <<srvOrder[k]>> \o RemoveAt(srvOrder, k)
  /\ otherEdits' = otherEdits + 1
  /\ UNCHANGED <<client, net, srvHolder, history>>

\* Another user claims a job.
OtherClaim(j, u) ==
  /\ otherEdits < MaxOtherEdits
  /\ InOrder(srvOrder, j) /\ u # SessionUserId
  /\ srvOrder' = SelectSeq(srvOrder, LAMBDA x : x # j)
  /\ srvHolder' = [srvHolder EXCEPT ![j] = u]
  /\ otherEdits' = otherEdits + 1
  /\ UNCHANGED <<client, net, history>>

\* The parent renders the component with the other shop: the state is kept,
\* the effect on [shop] clears the interval and runs again, refresh() included.
ShopChange ==
  /\ Interactive /\ MayIssue /\ shopChanges < MaxShopChanges
  /\ shop' = IF shop = HomeShop THEN OtherShop ELSE HomeShop
  /\ shopChanges' = shopChanges + 1
  /\ settled' = FALSE
  /\ Refresh(net, [GetReq("refresh") EXCEPT !.shop = shop'])
  /\ UNCHANGED <<role, phase, activeJobs, activeRef, claimedJobs, dragIndex, draggingId,
                 drag, server, moves, drags, gesture, uncommitted, shown, overrode, rb>>

\* ---------------------------------------------------------------- system
Init ==
  /\ role \in Roles
  /\ shop = HomeShop /\ shopChanges = 0 /\ settled = FALSE
  /\ phase = "created"
  /\ activeJobs = <<>> /\ activeRef = <<>> /\ claimedJobs = <<>>
  /\ loading = FALSE
  /\ dragIndex = NULL /\ draggingId = NULL
  /\ drag = "none"
  /\ net = <<>>
  /\ srvOrder = AllIds
  /\ srvHolder = [j \in JobIds |-> NULL]
  /\ otherEdits = 0
  /\ sent = 0 /\ moves = 0 /\ drags = 0
  /\ gStart = <<>> /\ gExpect = <<>> /\ gClean = TRUE
  /\ dragRow = NULL /\ dropRow = NULL
  /\ uncommitted = FALSE /\ shown = "initial" /\ overrode = FALSE /\ rb = NoRollback
  /\ parts = <<>> /\ drawerPart = NULL /\ form = NULL /\ drawerInParts = NULL
  /\ etaModal = NULL /\ toast = NULL
  /\ transfer = NULL /\ dragSource = NULL /\ attached = TRUE /\ srvParts = <<>>
  /\ fetched = 0 /\ viewPrefs = <<>> /\ saving = FALSE /\ stored = <<>>
  /\ lookups = <<>> /\ filters = <<>> /\ modalOpen = FALSE /\ submitting = FALSE
  /\ uploading = {} /\ ops = 0 /\ viewOps = 0

Next ==
  \/ MountEffect /\ UNCHANGED <<board, lanes>>
  \/ PollTick /\ UNCHANGED <<board, lanes>>
  \/ RefreshClick /\ UNCHANGED <<board, lanes>>
  \/ Unmount /\ UNCHANGED <<board, lanes>>
  \/ ShopChange /\ UNCHANGED board
  \/ \E id \in LaneIds : RemoveJob(id) /\ UNCHANGED <<board, lanes>>
  \/ \E id \in LaneIds : ClaimJob(id) /\ UNCHANGED <<board, lanes>>
  \/ \E id \in LaneIds : UnclaimJob(id) /\ UNCHANGED <<board, lanes>>
  \/ \E index \in 0..(MaxJobs - 1) : HandleDragStart(index) /\ UNCHANGED <<board, lanes>>
  \/ \E index \in 0..(MaxJobs - 1) : HandleDragOver(index) /\ UNCHANGED <<board, lanes>>
  \/ HandleDrop /\ UNCHANGED <<board, lanes>>
  \/ DragEnd /\ UNCHANGED <<board, lanes>>
  \/ DragEndDetached /\ UNCHANGED <<board, lanes>>
  \/ \E index \in 0..(MaxJobs - 1), delta \in {0 - 1, 1} : MoveRow(index, delta) /\ UNCHANGED <<board, lanes>>
  \/ \E i \in 1..MaxInFlight : RefreshDone(i) /\ UNCHANGED <<board, lanes>>
  \/ \E i \in 1..MaxInFlight : PersistOrderDone(i) /\ UNCHANGED <<board, lanes>>
  \/ \E i \in 1..MaxInFlight : RemoveJobDone(i) /\ UNCHANGED <<board, lanes>>
  \/ \E i \in 1..MaxInFlight : ClaimJobDone(i) /\ UNCHANGED <<board, lanes>>
  \/ \E i \in 1..MaxInFlight : UnclaimJobDone(i) /\ UNCHANGED <<board, lanes>>
  \/ \E i \in 1..MaxInFlight : ServerReject(i) /\ UNCHANGED <<board, lanes>>
  \/ \E i \in 1..MaxInFlight : ServerGet(i) /\ UNCHANGED <<board, lanes>>
  \/ \E i \in 1..MaxInFlight : ServerReorder(i) /\ UNCHANGED <<board, lanes>>
  \/ \E i \in 1..MaxInFlight : ServerClaim(i) /\ UNCHANGED <<board, lanes>>
  \/ \E i \in 1..MaxInFlight : ServerUnclaim(i) /\ UNCHANGED <<board, lanes>>
  \/ \E i \in 1..MaxInFlight : ServerDelete(i) /\ UNCHANGED <<board, lanes>>
  \/ \E k \in 1..MaxJobs : OtherReorder(k) /\ UNCHANGED <<board, lanes>>
  \/ \E j \in JobIds, u \in UserIds : OtherClaim(j, u) /\ UNCHANGED <<board, lanes>>

Spec == Init /\ [][Next]_vars

\* ------------------------------------------------- manufacturing board
\* bounds
MaxParts == 2         \* parts on the board, ids 1..MaxParts
MaxWorked == 1        \* parts 1..MaxWorked are worked on; the user is assigned to the others
MaxFetches == 2       \* GETs the board issues in one run (parts, lookups)
MaxMutations == 1     \* actions of the user that POST, PATCH or DELETE in one run
MaxOps == 2           \* clicks, inputs and drags of the user in one run
MaxViewOps == 1       \* of them, changes of the filters and of the view preferences
MaxIndexKey == 10     \* array indices "0".."10" among the keys of stored objects
MaxDigits == 9        \* digits of a number in a stored text
MaxPatches == 2       \* calls of updateViewPrefs in one run of the preferences

PartIds == 1..MaxParts

STATUS_COLUMNS ==
  <<"design_submitted", "ready_for_manufacturing", "in_progress", "quality_check",
    "completed">>
Statuses == {STATUS_COLUMNS[k] : k \in 1..Len(STATUS_COLUMNS)}

\* Number(text) of a text that is no number.
NaN == 0 - 3

\* Dates are counted in days: Date.now(), and an updated_at of long ago.
Today == 10
LongAgo == 0

\* A part as the backend sends it: a CNC part "Gear" of subsystem "Arm" in
\* material "Al", of priority normal and just changed, unless said otherwise.
Part(id, status, locked, canMove, canEdit, students, leads, creator, eta) ==
  [id |-> id, status |-> status, status_locked |-> locked, can_move |-> canMove,
   can_edit |-> canEdit, assigned_students |-> students, assigned_leads |-> leads,
   created_by |-> creator, eta_target |-> eta, priority |-> "normal",
   updated_at |-> Today, manufacturing_type |-> "cnc", part_name |-> "Gear",
   subsystem |-> "Arm", material |-> "Al"]

\* The characters of the texts that parts and the search box hold.
Chars(text) ==
  CASE text = "" -> <<>>
    [] text = "Gear" -> <<"G", "e", "a", "r">>
    [] text = "Hub" -> <<"H", "u", "b">>
    [] text = "Arm" -> <<"A", "r", "m">>
    [] text = "Al" -> <<"A", "l">>
    [] text = "r A" -> <<"r", " ", "A">>

\* String.prototype.toLowerCase
LowerCase == [G |-> "g", H |-> "h", A |-> "a"]
ToLowerCase(chars) ==
  [k \in 1..Len(chars) |->
     IF chars[k] \in DOMAIN LowerCase THEN LowerCase[chars[k]] ELSE chars[k]]

\* String.prototype.includes
Includes(chars, sub) ==
  \E k \in 0..(Len(chars) - Len(sub)) : SubSeq(chars, k + 1, k + Len(sub)) = sub

\* defaultFilters
defaultFilters == [type |-> "all", priority |-> "all", search |-> ""]

\* isOlderThan(dateString, days)
IsOlderThan(stamp, days) ==
  IF stamp \in {NULL, NaN} THEN FALSE ELSE Today - stamp > days

\* A JavaScript value of the view preferences and of a stored item.  val says
\* what it is: "true", "false", "null", "undefined", "number" (num is the
\* number), "string" (chars are its characters), "{}" for an object or "[]" for
\* an array, which have their own keys in the order JavaScript lists them and
\* the value at each.
NoKeys == [key \in {} |-> TRUE]
NoNumber == [neg |-> FALSE, mant |-> 0, exp |-> 0, inf |-> FALSE]
Value(text) ==
  [val |-> text, num |-> NoNumber, chars |-> <<>>, keys |-> <<>>, at |-> NoKeys]
Bool(b) == Value(IF b THEN "true" ELSE "false")
UndefinedValue == Value("undefined")

\* A number: its sign and mant * 10^exp, where mant ends in no zero, or an
\* infinity.  Zero has a sign too.
Num(neg, mant, exp) ==
  [Value("number") EXCEPT !.num = [neg |-> neg, mant |-> mant, exp |-> exp, inf |-> FALSE]]
Infinity(neg) ==
  [Value("number") EXCEPT !.num = [neg |-> neg, mant |-> 0, exp |-> 0, inf |-> TRUE]]
Str(chars) == [Value("string") EXCEPT !.chars = chars]

\* The keys that are array indices, "0", "1", ...: JavaScript lists them before
\* every other key of an object, in ascending order.
IndexKeys == [n \in 0..MaxIndexKey |-> ToString(n)]
IndexKeySet == {IndexKeys[n] : n \in 0..MaxIndexKey}
IsIndex(key) == key \in IndexKeySet
IndexOf(key) == CHOOSE n \in 0..MaxIndexKey : IndexKeys[n] = key

\* OrdinaryOwnPropertyKeys of an object whose keys were inserted in the order
\* of keys.
OwnKeys(keys) ==
  LET indices == {IndexOf(keys[k]) : k \in {j \in 1..Len(keys) : IsIndex(keys[j])}}
      sorted == [n \in 1..Cardinality(indices) |->
                   IndexKeys[CHOOSE i \in indices :
                               Cardinality({j \in indices : j < i}) = n - 1]]
  IN  IF \A k \in 1..Len(keys) : ~IsIndex(keys[k]) THEN keys
      ELSE sorted \o SelectSeq(keys, LAMBDA key : ~IsIndex(key))

Object(keys, at) == [Value("{}") EXCEPT !.keys = OwnKeys(keys), !.at = at]
EmptyObject == Object(<<>>, NoKeys)
Array(items) ==
  [Value("[]") EXCEPT !.keys = [k \in 1..Len(items) |-> IndexKeys[k - 1]],
                      !.at = [key \in {IndexKeys[k - 1] : k \in 1..Len(items)} |->
                                items[IndexOf(key) + 1]]]

\* { [key]: value }
One(key, value) == Object(<<key>>, [k \in {key} |-> value])

\* obj.key, and obj?.key of null
Get(obj, key) == IF key \in DOMAIN obj.at THEN obj.at[key] ELSE UndefinedValue

\* A value used as a condition.
ToBoolean(value) ==
  ~ \/ value.val \in {"false", "null", "undefined"}
    \/ value.val = "number" /\ ~value.num.inf /\ value.num.mant = 0
    \/ value.val = "string" /\ value.chars = <<>>

\* The keys of ViewPrefs in the order of defaultViewPrefs.
PrefKeys == <<"onlyMine", "onlyUrgent", "hideOldCompleted", "compactMode", "collapsed">>

\* defaultViewPrefs
defaultViewPrefs ==
  Object(PrefKeys,
         [onlyMine |-> Bool(FALSE), onlyUrgent |-> Bool(FALSE),
          hideOldCompleted |-> Bool(TRUE), compactMode |-> Bool(FALSE),
          collapsed |-> Object(STATUS_COLUMNS, [s \in Statuses |-> Bool(s = "completed")])])

\* The own enumerable properties a spread copies: those of an object or an
\* array, the characters of a string under their indices, none of any other
\* value.
Properties(value) ==
  CASE value.val \in {"{}", "[]"} -> value
    [] value.val = "string" ->
         Array([k \in 1..Len(value.chars) |-> Str(<<value.chars[k]>>)])
    [] OTHER -> EmptyObject

\* { ...a, ...b }: the properties of a, then those b adds, each with b's value
\* where b has one, the keys in the order JavaScript lists them.
Spread(a, b) ==
  LET given == Properties(b)
  IN  Object(a.keys \o SelectSeq(given.keys, LAMBDA key : key \notin DOMAIN a.at),
             [key \in DOMAIN a.at \cup DOMAIN given.at |->
                IF key \in DOMAIN given.at THEN given.at[key] ELSE a.at[key]])

\* A JSON text: val is "true", "false", "null", "number" (num: its sign, the
\* digits it writes without the point, which are those of mant, ending in no
\* zero, and zeros more zeros, and the power of ten that scales them: 1.0 is 1,
\* one zero and -1, 1e2 is 1, no zero and 2, 100 is 1, two zeros and 0),
\* "string" (chars), "{}" (members: each a key as it is written and the text of
\* its value, in the order of the text) or "[]" (members: its items).
NoToken == [neg |-> FALSE, mant |-> 0, zeros |-> 0, exp |-> 0]
JsonText(text) == [val |-> text, num |-> NoToken, chars |-> <<>>, members |-> <<>>]
JsonNumber(neg, mant, zeros, exp) ==
  [JsonText("number") EXCEPT
     !.num = [neg |-> neg, mant |-> mant, zeros |-> zeros, exp |-> exp]]
JsonString(chars) == [JsonText("string") EXCEPT !.chars = chars]
JsonObject(members) == [JsonText("{}") EXCEPT !.members = members]
JsonArray(members) == [JsonText("[]") EXCEPT !.members = members]
Member(key, value) == [key |-> key, value |-> value]
Item(value) == Member("", value)

\* The item of localStorage under VIEW_PREF_KEY: "none" (getItem returns
\* null), "empty" (the empty text), "text" (a text JSON.parse rejects) or "json"
\* with the text's root.
Blob(kind, root) == [kind |-> kind, root |-> root]
NoItem == Blob("none", JsonText("null"))
EmptyText == Blob("empty", JsonText("null"))
Unparsable == Blob("text", JsonText("null"))
Json(root) == Blob("json", root)

RECURSIVE Digits(_)
Digits(n) == IF n < 10 THEN 1 ELSE 1 + Digits(n \div 10)
RECURSIVE Pow10(_)
Pow10(k) == IF k = 0 THEN 1 ELSE 10 * Pow10(k - 1)
RECURSIVE Shortest(_, _)
Shortest(mant, exp) ==
  IF mant # 0 /\ mant % 10 = 0 THEN Shortest(mant \div 10, exp + 1)
  ELSE [mant |-> mant, exp |-> exp]

\* A natural number of any length: its decimal digits, the last one first.
RECURSIVE Decimal(_)
Decimal(n) == IF n = 0 THEN <<>> ELSE <<n % 10>> \o Decimal(n \div 10)
RECURSIVE NatOf(_)
NatOf(digits) == IF digits = <<>> THEN 0 ELSE Head(digits) + 10 * NatOf(Tail(digits))
RECURSIVE Sum(_, _, _)
Sum(a, b, carry) ==
  IF a = <<>> /\ b = <<>> THEN Decimal(carry)
  ELSE LET t == (IF a = <<>> THEN 0 ELSE Head(a)) + (IF b = <<>> THEN 0 ELSE Head(b)) + carry
       IN  <<t % 10>> \o Sum(IF a = <<>> THEN a ELSE Tail(a),
                             IF b = <<>> THEN b ELSE Tail(b), t \div 10)
RECURSIVE Times(_, _, _)
Times(a, n, carry) ==
  IF a = <<>> THEN Decimal(carry)
  ELSE LET t == Head(a) * n + carry
       IN  <<t % 10>> \o Times(Tail(a), n, t \div 10)
Reverse(seq) == [k \in 1..Len(seq) |-> seq[Len(seq) + 1 - k]]

\* floor(digits / 10^places), and digits / 10^places rounded to an integer.
Above(digits, places) ==
  IF places >= Len(digits) THEN <<>> ELSE SubSeq(digits, places + 1, Len(digits))
Rounded(digits, places) ==
  NatOf(Above(digits, places))
    + (IF places \in 1..Len(digits) /\ digits[places] >= 5 THEN 1 ELSE 0)

\* The doubles below 2.2250738585072014e-308 are the multiples of
\* Number.MIN_VALUE, 2^-1074 = 4.940656458412465441765687928682e-324.  With
\* 1e-324 as the unit: half of that step, 2.470328229206232720882843964341, and
\* the steps in a unit, 0.202402253307310618352495346718, to Places places.
HalfStep ==
  Reverse(<<2, 4, 7, 0, 3, 2, 8, 2, 2, 9, 2, 0, 6, 2, 3, 2, 7, 2, 0, 8, 8, 2, 8, 4, 3, 9,
            6, 4, 3, 4, 1>>)
PerUnit ==
  Reverse(<<2, 0, 2, 4, 0, 2, 2, 5, 3, 3, 0, 7, 3, 1, 0, 6, 1, 8, 3, 5, 2, 4, 9, 5, 3, 4,
            6, 7, 1, 8>>)
Places == Len(PerUnit)

\* The double nearest to mant * 10^exp for exp below -323, where the decimals
\* of MaxDigits digits are closer to each other than the doubles: the k-th
\* multiple of the step, named by the shortest decimal that denotes it and no
\* other double, the nearest to it of those.
Subnormal(neg, mant, exp) ==
  LET ratio == Sum(Times(PerUnit, mant % 100000, 0),
                   <<0, 0, 0, 0, 0>> \o Times(PerUnit, mant \div 100000, 0), 0)
      k == Rounded(ratio, Places - 324 - exp)
      low == Sum(Times(HalfStep, k, 0), Times(HalfStep, k - 1, 0), 0)
      mid == Sum(Times(HalfStep, k, 0), Times(HalfStep, k, 0), 0)
      high == Sum(Times(HalfStep, k, 0), Times(HalfStep, k + 1, 0), 0)
      tens == {j \in 1..MaxDigits :
                 NatOf(Above(high, Places + j)) > NatOf(Above(low, Places + j))}
      most == CHOOSE j \in tens : \A i \in tens : i <= j
  IN  IF k = 0 THEN Num(neg, 0, 0)
      ELSE IF tens # {} THEN Num(neg, NatOf(Above(high, Places + most)), most - 324)
      ELSE Num(neg, Rounded(mid, Places), 0 - 324)

\* The double a JSON number denotes, for texts of up to MaxDigits digits: beyond
\* Number.MAX_VALUE (1.7976931348623157e308, MaxLead are its first digits) it is
\* an infinity of the text's sign, a zero is of the text's sign; any other
\* double is named by the shortest decimal that denotes it, which is the text's
\* number where the doubles are closer to each other than the decimals.
MaxLead == 179769313
NumberOf(token) ==
  LET short == Shortest(token.mant, token.exp + token.zeros)
      top == short.exp + Digits(short.mant)
      lead == short.mant * Pow10(MaxDigits - Digits(short.mant))
  IN  IF short.mant = 0 THEN Num(token.neg, 0, 0)
      ELSE IF top > 309 \/ (top = 309 /\ lead > MaxLead) THEN Infinity(token.neg)
      ELSE IF short.exp < 0 - 323 THEN Subnormal(token.neg, short.mant, short.exp)
      ELSE Num(token.neg, short.mant, short.exp)

\* The text JSON.stringify writes for a number: null for an infinity, 0 for
\* either zero, an integer below 1e21 with all its digits, any other number by
\* its digits and the power of ten that scales them.
NumberText(num) ==
  IF num.inf THEN JsonText("null")
  ELSE IF num.mant = 0 THEN JsonNumber(FALSE, 0, 0, 0)
  ELSE IF num.exp >= 0 /\ num.exp + Digits(num.mant) <= 21
    THEN JsonNumber(num.neg, num.mant, num.exp, 0)
  ELSE JsonNumber(num.neg, num.mant, 0, num.exp)

\* JSON.stringify(viewPrefs): every own key of an object in order, but those
\* whose value is undefined; null for an undefined item of an array.
RECURSIVE JsonOf(_)
Members(obj) ==
  LET keys == SelectSeq(obj.keys, LAMBDA key : obj.at[key].val # "undefined")
  IN  [k \in 1..Len(keys) |-> Member(keys[k], JsonOf(obj.at[keys[k]]))]
JsonOf(value) ==
  CASE value.val = "number" -> NumberText(value.num)
    [] value.val = "string" -> JsonString(value.chars)
    [] value.val = "{}" -> JsonObject(Members(value))
    [] value.val = "[]" ->
         JsonArray([k \in 1..Len(value.keys) |-> Item(JsonOf(value.at[value.keys[k]]))])
    [] value.val = "undefined" -> JsonText("null")
    [] OTHER -> JsonText(value.val)
Stringify(prefs) == Json(JsonOf(prefs))

\* The key a member's text names: JSON.parse resolves the escapes of the text
\* (u006f after a backslash is the letter o).
Escaped == [text \in {"\\u006fnlyMine"} |-> "onlyMine"]
KeyOf(text) == IF text \in DOMAIN Escaped THEN Escaped[text] ELSE text

\* JSON.parse(raw).  In an object a key is inserted where it first occurs and
\* holds the value of its last occurrence.
RECURSIVE ParseValue(_)
ParseMembers(members) ==
  LET key == [k \in 1..Len(members) |-> KeyOf(members[k].key)]
      first == SelectSeq([k \in 1..Len(members) |-> k],
                         LAMBDA k : \A j \in 1..(k - 1) : key[j] # key[k])
  IN  Object([n \in 1..Len(first) |-> key[first[n]]],
             [name \in {key[k] : k \in 1..Len(members)} |->
                LET last == CHOOSE k \in 1..Len(members) :
                              /\ key[k] = name
                              /\ \A j \in (k + 1)..Len(members) : key[j] # name
                IN  ParseValue(members[last].value)])
ParseValue(json) ==
  CASE json.val = "number" -> NumberOf(json.num)
    [] json.val = "string" -> Str(json.chars)
    [] json.val = "{}" -> ParseMembers(json.members)
    [] json.val = "[]" ->
         Array([k \in 1..Len(json.members) |-> ParseValue(json.members[k].value)])
    [] OTHER -> Value(json.val)
Parse(raw) == ParseValue(raw.root)

\* if (!raw): no item, or an empty one.
Falsy(raw) == raw.kind \in {"none", "empty"}

\* The initialiser of the viewPrefs state.
InitialViewPrefs(raw) ==
  IF Falsy(raw) \/ raw.kind = "text" THEN defaultViewPrefs
  ELSE LET parsed == Parse(raw)
           given == Get(parsed, "collapsed")
       IN  Spread(Spread(defaultViewPrefs, parsed),
                  One("collapsed",
                      Spread(Get(defaultViewPrefs, "collapsed"),
                             IF given.val \in {"null", "undefined"} THEN EmptyObject
                                                                    ELSE given)))

\* The setter of updateViewPrefs(patch):
\* (prev) => ({ ...prev, ...patch, collapsed: patch.collapsed ? ... : prev.collapsed })
Merged(prev, patch) ==
  Spread(Spread(prev, patch),
         One("collapsed",
             IF ToBoolean(Get(patch, "collapsed"))
               THEN Spread(Get(prev, "collapsed"), Get(patch, "collapsed"))
               ELSE Get(prev, "collapsed")))

\* What the browser may hold when the board is created: nothing, an empty
\* text, a text that is not JSON, what an earlier session left, objects that
\* lack keys, that hold keys ViewPrefs lacks (array indices among them), a key
\* twice or escaped, values that are no booleans (numbers written in several
\* ways, too large or too small for a double, a string, null), and texts whose
\* root is no object.
JsonTrue == JsonText("true")
JsonFalse == JsonText("false")
BlobInputs ==
  {NoItem, EmptyText, Unparsable, Json(JsonObject(<<>>)),
   Json(JsonObject(<<Member("foo", JsonTrue), Member("onlyUrgent", JsonNumber(FALSE, 1, 0, 0)),
                     Member("collapsed",
                            JsonObject(<<Member("bar", JsonTrue),
                                         Member("completed", JsonFalse)>>))>>)),
   Stringify(Merged(defaultViewPrefs,
                    Object(<<"onlyMine", "collapsed">>,
                           [onlyMine |-> Bool(TRUE),
                            collapsed |-> One("completed", Bool(FALSE))]))),
   Json(JsonObject(<<Member("onlyMine", JsonTrue), Member("compactMode", JsonTrue),
                     Member("onlyMine", JsonFalse)>>)),
   Json(JsonObject(<<Member("hideOldCompleted", JsonText("null")),
                     Member("collapsed",
                            JsonObject(<<Member("quality_check", JsonFalse),
                                         Member("quality_check", JsonTrue)>>))>>)),
   Json(JsonObject(<<Member("collapsed", JsonText("null"))>>)),
   Json(JsonObject(<<Member("10", JsonTrue), Member("b", JsonNumber(FALSE, 1, 1, 0 - 1)),
                     Member("2", JsonNumber(FALSE, 1, 0, 9)),
                     Member("compactMode", JsonNumber(FALSE, 15, 0, 0 - 1))>>)),
   Json(JsonObject(<<Member("onlyMine", JsonNumber(FALSE, 1, 0, 999)),
                     Member("onlyUrgent", JsonNumber(TRUE, 0, 0, 0)),
                     Member("hideOldCompleted", JsonNumber(FALSE, 3, 0, 0 - 324)),
                     Member("compactMode", JsonNumber(FALSE, 1, 0, 0 - 999))>>)),
   Json(JsonObject(<<Member("\\u006fnlyMine", JsonTrue),
                     Member("collapsed", JsonString(<<"a", "b">>))>>)),
   Json(JsonString(<<"a", "b">>)),
   Json(JsonArray(<<Item(JsonTrue)>>)),
   Json(JsonText("null"))}

\* JavaScript null of a "string | null" field, of drawerPart, of etaModal.
NullStr == "null"

\* error?.response?.data?.detail of an error without a response or without a
\* detail; the detail of the backend's refusals.
NoDetail == "undefined"
Refusal == "Server says no"
NullPart == Part(NULL, NullStr, FALSE, FALSE, FALSE, {}, {}, NULL, NullStr)
NullModal == [part |-> NullPart, mode |-> NullStr, busy |-> FALSE]

\* The variables of the lane, which the board leaves alone.
laneOnly == <<activeJobs, activeRef, claimedJobs, dragIndex, srvOrder, srvHolder, moves,
              drags, gesture, view, lanes>>

\* What the date and time inputs of the ETA step may hold.
DateInputs == {"", "bad", "2030-01-01"}
TimeInputs == {"", "bad", "12:00"}

\* new Date(`${date}T${time}`): getTime() is NaN unless the text is a date-time.
NewDate(date, time) ==
  IF date = "2030-01-01" /\ time = "12:00"
    THEN [time |-> 1, iso |-> "2030-01-01T12:00:00.000Z"]
    ELSE [time |-> NaN, iso |-> "RangeError"]

\* A request of the board: kind "parts" (GET manufacturing/parts), "status",
\* "partclaim", "eta", "release", "delete", "save" (PATCH, with the keys of its
\* payload and the assigned_student_ids it carries), "lookups" (GET
\* manufacturing/lookups), "create" (POST manufacturing/parts, with the part_name
\* of the form and the files chosen), "files" (POST manufacturing/parts/{id}/files
\* of the drawer), "createfiles" (the same of handleCreate).  detail:
\* error.response.data.detail of a failure.  live: the EtaModal or PartDrawer
\* that sent it is still rendered (history).
BoardReq(kind, part, status, eta, silent, live) ==
  [kind |-> kind, part |-> part, status |-> status, eta_target |-> eta,
   silent |-> silent, live |-> live, keys |-> {}, students |-> {}, leads |-> {},
   name |-> "", files |-> {},
   phase |-> "sent", ok |-> FALSE, data |-> <<>>, detail |-> NoDetail]

\* a || b and a ?? b of a text that may be undefined
OrElse(a, b) == IF a \in {NoDetail, NullStr, ""} THEN b ELSE a
Coalesce(a, b) == IF a \in {NoDetail, NullStr} THEN b ELSE a

\* {toast && <div className="notice ok">}, and if (!toast) return
Shown(text) == text \notin {NullStr, ""}

\* ---------------------------------------------------------- board client
IsLead == role = "lead" \/ role = "admin"

\* isMyPart(part)
IsMyPart(part) ==
  \/ SessionUserId \in part.assigned_students
  \/ SessionUserId \in part.assigned_leads
  \/ part.created_by = SessionUserId

\* The text the search box is matched against.
Haystack(part) ==
  ToLowerCase(Chars(part.part_name) \o <<" ">> \o Chars(part.subsystem) \o <<" ">>
                \o Chars(part.material))

\* filteredParts keeps the part.
Visible(part) ==
  /\ ~(filters.type # "all" /\ part.manufacturing_type # filters.type)
  /\ ~(filters.priority # "all" /\ part.priority # filters.priority)
  /\ ~(filters.search # ""
         /\ ~Includes(Haystack(part), ToLowerCase(Chars(filters.search))))
  /\ ~(ToBoolean(Get(viewPrefs, "onlyMine")) /\ ~IsMyPart(part))
  /\ ~(ToBoolean(Get(viewPrefs, "onlyUrgent")) /\ part.priority # "urgent")
  /\ ~(ToBoolean(Get(viewPrefs, "hideOldCompleted")) /\ part.status = "completed"
         /\ IsOlderThan(part.updated_at, 7))

\* The card of parts[k] is rendered.
Rendered(k) == k \in 1..Len(parts) /\ Visible(parts[k])

MayFetch == Len(net) < MaxInFlight /\ fetched < MaxFetches
MayMutate == Len(net) < MaxInFlight /\ sent - fetched < MaxMutations

\* One more action of the user; one more change of the filters or preferences.
Op == ops < MaxOps /\ ops' = ops + 1
ViewOp == viewOps < MaxViewOps /\ viewOps' = viewOps + 1

\* The list replaces the cards: a card whose part is gone, filtered out or
\* shown in another column is unmounted, and the dragend of a drag begun on it
\* reaches no handler.
Remounted(next) ==
  /\ drag # "none" /\ dragSource # NULL
  /\ \E k \in 1..Len(parts) :
       /\ parts[k].id = dragSource
       /\ \A n \in 1..Len(next) :
            next[n].id = dragSource => next[n].status # parts[k].status \/ ~Visible(next[n])

\* refreshParts(silent), up to its await.  requests: the requests in flight,
\* as the caller leaves them.
RefreshPartsFrom(requests, silent) ==
  /\ loading' = IF silent THEN loading ELSE SetState(loading, TRUE)
  /\ net' = Append(requests, BoardReq("parts", NULL, NullStr, NullStr, silent, FALSE))
  /\ sent' = sent + 1
  /\ fetched' = fetched + 1
RefreshParts(silent) == RefreshPartsFrom(net, silent)

\* The effects of the first render: localStorage.setItem(VIEW_PREF_KEY, ...),
\* then useEffect(() => { refreshParts(); setInterval(() => refreshParts(true), 20000) }, []),
\* then, for isLead, api.get("/manufacturing/lookups").
BoardMountEffect ==
  /\ phase = "created"
  /\ phase' = "mounted"
  /\ stored' = Stringify(viewPrefs)
  /\ loading' = TRUE
  /\ net' = Append(net, BoardReq("parts", NULL, NullStr, NullStr, FALSE, FALSE))
             \o (IF IsLead
                   THEN <<BoardReq("lookups", NULL, NullStr, NullStr, FALSE, FALSE)>>
                   ELSE <<>>)
  /\ sent' = sent + Len(net')
  /\ fetched' = fetched + Len(net')
  /\ UNCHANGED <<laneOnly, role, draggingId, drag, otherEdits, parts, drawerPart, form,
                   drawerInParts, etaModal, toast, transfer, dragSource, attached,
                   srvParts, viewPrefs, saving, lookups, filters, modalOpen,
                   submitting, uploading, ops, viewOps>>

\* window.setInterval(() => refreshParts(true), 20000)
BoardPollTick ==
  /\ phase = "mounted" /\ drag # "dropped" /\ MayFetch
  /\ RefreshParts(TRUE)
  /\ UNCHANGED <<laneOnly, role, phase, draggingId, drag, otherEdits, parts,
                   drawerPart, form, drawerInParts, etaModal, toast, transfer,
                   dragSource, attached, srvParts, viewPrefs, saving, stored, lookups,
                   filters, modalOpen, submitting, uploading, ops, viewOps>>

\* <button onClick={() => refreshParts()} disabled={loading}>
BoardRefreshClick ==
  /\ Interactive /\ Op /\ ~loading /\ MayFetch
  /\ RefreshParts(FALSE)
  /\ UNCHANGED <<laneOnly, role, phase, draggingId, drag, otherEdits, parts,
                   drawerPart, form, drawerInParts, etaModal, toast, transfer,
                   dragSource, attached, srvParts, viewPrefs, saving, stored, lookups,
                   filters, modalOpen, submitting, uploading, viewOps>>

\* refreshParts from its await on.
RefreshPartsDone(i) ==
  /\ Answered(i, "parts")
  /\ net' = RemoveAt(net, i)
  /\ parts' = IF net[i].ok THEN SetState(parts, net[i].data) ELSE parts
  /\ drawerInParts' = IF net[i].ok THEN SetState(drawerInParts, FALSE) ELSE drawerInParts
  /\ attached' = (attached /\ ~Remounted(parts'))
  /\ toast' = IF ~net[i].ok /\ ~net[i].silent
                THEN SetState(toast, OrElse(net[i].detail,
                                            "Unable to load manufacturing parts"))
                ELSE toast
  /\ loading' = IF net[i].silent THEN loading ELSE SetState(loading, FALSE)
  /\ UNCHANGED <<laneOnly, role, phase, draggingId, drag, sent, otherEdits, drawerPart,
                   form, etaModal, transfer, dragSource, srvParts, fetched, viewPrefs,
                   saving, stored, lookups, filters, modalOpen, submitting, uploading,
                   ops, viewOps>>

\* .then((res) => setLookups(res.data.users)).catch(() => setToast(...))
LookupsDone(i) ==
  /\ Answered(i, "lookups")
  /\ net' = RemoveAt(net, i)
  /\ lookups' = IF net[i].ok THEN SetState(lookups, net[i].data) ELSE lookups
  /\ toast' = IF net[i].ok THEN toast ELSE SetState(toast, "Unable to load assignees")
  /\ UNCHANGED <<laneOnly, role, phase, loading, draggingId, drag, sent, otherEdits,
                   parts, drawerPart, form, drawerInParts, etaModal, transfer,
                   dragSource, attached, srvParts, fetched, viewPrefs, saving, stored,
                   filters, modalOpen, submitting, uploading, ops, viewOps>>

\* useEffect(() => { setTimeout(() => setToast(null), 4000) }, [toast])
ToastTimeout ==
  /\ phase = "mounted" /\ Shown(toast)
  /\ toast' = NullStr
  /\ UNCHANGED <<laneOnly, role, phase, loading, draggingId, drag, net, sent,
                   otherEdits, parts, drawerPart, form, drawerInParts, etaModal,
                   transfer, dragSource, attached, srvParts, fetched, viewPrefs,
                   saving, stored, lookups, filters, modalOpen, submitting, uploading,
                   ops, viewOps>>

\* toEditable(part): the assignees of the PartDrawer's form state, the fields
\* of the form followed here.
ToEditable(part) ==
  [assigned_student_ids |-> part.assigned_students,
   assigned_lead_ids |-> part.assigned_leads]
NoForm == [assigned_student_ids |-> {}, assigned_lead_ids |-> {}]

\* Mutant: every entry of the list is replaced by the returned part.
UpdatePartInStateAll(next) ==
  /\ parts' = SetState(parts, [k \in 1..Len(parts) |-> next])
  /\ drawerPart' = SetState(drawerPart,
                            IF drawerPart # NullPart /\ drawerPart.id = next.id
                              THEN next ELSE drawerPart)
  /\ form' = SetState(form,
                      IF drawerPart # NullPart /\ drawerPart.id = next.id
                        THEN ToEditable(next) ELSE form)
  /\ drawerInParts' = SetState(drawerInParts,
                               IF drawerPart # NullPart /\ drawerPart.id = next.id
                                 THEN \E k \in 1..Len(parts) : parts[k].id = next.id
                                 ELSE drawerInParts)
  /\ attached' = (attached /\ ~Remounted(parts'))

\* updatePartInState(next): the entry of the list with next's id and a drawer
\* that shows that id are handed the same object.  A drawer that is handed
\* another part object resets its form to it (useEffect on [part]).
UpdatePartInState(next) ==
  /\ parts' = SetState(parts, [k \in 1..Len(parts) |->
                                 IF parts[k].id = next.id THEN next ELSE parts[k]])
  /\ drawerPart' = SetState(drawerPart,
                            IF drawerPart # NullPart /\ drawerPart.id = next.id
                              THEN next ELSE drawerPart)
  /\ form' = SetState(form,
                      IF drawerPart # NullPart /\ drawerPart.id = next.id
                        THEN ToEditable(next) ELSE form)
  /\ drawerInParts' = SetState(drawerInParts,
                               IF drawerPart # NullPart /\ drawerPart.id = next.id
                                 THEN \E k \in 1..Len(parts) : parts[k].id = next.id
                                 ELSE drawerInParts)
  /\ attached' = (attached /\ ~Remounted(parts'))

\* movePart(partId, status), up to its await.
MovePart(partId, status) ==
  /\ net' = Append(net, BoardReq("status", partId, status, NullStr, FALSE, FALSE))
  /\ sent' = sent + 1

\* movePart from its await on: updatePartInState(res.data), or the toast.
MovePartDone(i) ==
  /\ Answered(i, "status")
  /\ net' = RemoveAt(net, i)
  /\ IF net[i].ok
       THEN UpdatePartInState(net[i].data) /\ UNCHANGED toast
       ELSE /\ toast' = SetState(toast, Coalesce(net[i].detail, "Unable to move part"))
            /\ UNCHANGED <<parts, drawerPart, form, drawerInParts, attached>>
  /\ UNCHANGED <<laneOnly, role, phase, loading, draggingId, drag, sent, otherEdits,
                   etaModal, transfer, dragSource, srvParts, fetched, viewPrefs,
                   saving, stored, lookups, filters, modalOpen, submitting, uploading,
                   ops, viewOps>>

\* The component that sent them is no longer rendered: its pending
\* setBusy(false) or setSaving(false) is a no-op.
EtaKinds == {"partclaim", "eta"}
Unmounted(requests, kinds) ==
  [k \in 1..Len(requests) |->
     IF requests[k].kind \in kinds THEN [requests[k] EXCEPT !.live = FALSE]
                                   ELSE requests[k]]

\* The stages offered to the user in one run (a subset of STATUS_COLUMNS).
StageInputs == {"in_progress", "completed"}

\* The Type and Priority selects and the search box: setFilters((prev) =>
\* ({ ...prev, [field]: event.target.value })), on a change of the value.
SetFilters(field, value) ==
  /\ Interactive /\ Op /\ ViewOp
  /\ value # filters[field]
  /\ filters' = [filters EXCEPT ![field] = value]
  /\ UNCHANGED <<laneOnly, role, phase, loading, draggingId, drag, net, sent,
                   otherEdits, parts, drawerPart, form, drawerInParts, etaModal, toast,
                   transfer, dragSource, attached, srvParts, fetched, viewPrefs,
                   saving, stored, lookups, modalOpen, submitting, uploading>>

\* "Create Request": setModalOpen(true)
OpenCreate ==
  /\ Interactive /\ Op
  /\ modalOpen' = TRUE
  /\ UNCHANGED <<laneOnly, role, phase, loading, draggingId, drag, net, sent,
                   otherEdits, parts, drawerPart, form, drawerInParts, etaModal, toast,
                   transfer, dragSource, attached, srvParts, fetched, viewPrefs,
                   saving, stored, lookups, filters, submitting, uploading, viewOps>>

\* CreateModal onClose
CloseCreate ==
  /\ Interactive /\ Op /\ modalOpen
  /\ modalOpen' = FALSE
  /\ UNCHANGED <<laneOnly, role, phase, loading, draggingId, drag, net, sent,
                   otherEdits, parts, drawerPart, form, drawerInParts, etaModal, toast,
                   transfer, dragSource, attached, srvParts, fetched, viewPrefs,
                   saving, stored, lookups, filters, submitting, uploading, viewOps>>

\* handleCreate, up to its first await: the form holds the part_name given
\* (a required field) and the files chosen.  The submit button is disabled
\* while submitting.
HandleCreate(name, files) ==
  /\ Interactive /\ Op /\ modalOpen /\ ~submitting /\ MayMutate
  /\ submitting' = TRUE
  /\ net' = Append(net, [BoardReq("create", NULL, NullStr, NullStr, FALSE, FALSE)
                           EXCEPT !.name = name, !.files = files,
                                  !.keys = IF IsLead
                                             THEN {"assigned_student_ids", "assigned_lead_ids"}
                                             ELSE {}])
  /\ sent' = sent + 1
  /\ UNCHANGED <<laneOnly, role, phase, loading, draggingId, drag, otherEdits, parts,
                   drawerPart, form, drawerInParts, etaModal, toast, transfer,
                   dragSource, attached, srvParts, fetched, viewPrefs, saving, stored,
                   lookups, filters, modalOpen, uploading, viewOps>>

\* `Created ${name}`
Created(name) ==
  CASE name = "Hub" -> "Created Hub"
    [] name = "request" -> "Created request"

\* The end of handleCreate's try block, then its finally:
\* setToast(`Created ...`), setModalOpen(false), resetCreateForm(), refreshParts().
CreateSucceeded(requests, name) ==
  /\ fetched < MaxFetches
  /\ toast' = SetState(toast, Created(OrElse(name, "request")))
  /\ modalOpen' = SetState(modalOpen, FALSE)
  /\ RefreshPartsFrom(requests, FALSE)
  /\ submitting' = SetState(submitting, FALSE)

\* handleCreate from its first await on: with files chosen, uploadPartFiles
\* up to its await.
HandleCreateDone(i) ==
  /\ Answered(i, "create")
  /\ IF ~net[i].ok
       THEN /\ toast' = SetState(toast, OrElse(net[i].detail, "Unable to create part"))
            /\ submitting' = SetState(submitting, FALSE)
            /\ net' = RemoveAt(net, i)
            /\ UNCHANGED <<modalOpen, loading, sent, fetched>>
       ELSE IF net[i].files # {}
         THEN /\ net' = Append(RemoveAt(net, i),
                               [BoardReq("createfiles", net[i].data.id, NullStr, NullStr,
                                         FALSE, FALSE)
                                  EXCEPT !.name = net[i].name, !.files = net[i].files])
              /\ sent' = sent + 1
              /\ UNCHANGED <<toast, submitting, modalOpen, loading, fetched>>
         ELSE CreateSucceeded(RemoveAt(net, i), net[i].name)
  /\ UNCHANGED <<laneOnly, role, phase, draggingId, drag, otherEdits, parts,
                   drawerPart, form, drawerInParts, etaModal, transfer, dragSource,
                   attached, srvParts, viewPrefs, saving, stored, lookups, filters,
                   uploading, ops, viewOps>>

\* handleCreate from the await of uploadPartFiles on: a failure sets the toast
\* to its detail or "File upload failed", and the toast is set again at once.
CreateFilesDone(i) ==
  /\ Answered(i, "createfiles")
  /\ CreateSucceeded(RemoveAt(net, i), net[i].name)
  /\ UNCHANGED <<laneOnly, role, phase, draggingId, drag, otherEdits, parts,
                   drawerPart, form, drawerInParts, etaModal, transfer, dragSource,
                   attached, srvParts, viewPrefs, saving, stored, lookups, filters,
                   uploading, ops, viewOps>>

\* PartDrawer.handleUpload(type, file, input) of a file chosen, then
\* handleUploadFile(drawerPart.id, type, file) up to its await.  The input is
\* disabled while uploading[type].
UploadFile(type) ==
  /\ Interactive /\ Op /\ drawerPart # NullPart /\ type \notin uploading /\ MayMutate
  /\ uploading' = uploading \cup {type}
  /\ net' = Append(net, [BoardReq("files", drawerPart.id, NullStr, NullStr, FALSE, TRUE)
                           EXCEPT !.files = {type}])
  /\ sent' = sent + 1
  /\ UNCHANGED <<laneOnly, role, phase, loading, draggingId, drag, otherEdits, parts,
                   drawerPart, form, drawerInParts, etaModal, toast, transfer,
                   dragSource, attached, srvParts, fetched, viewPrefs, saving, stored,
                   lookups, filters, modalOpen, submitting, viewOps>>

\* handleUploadFile from its await on, then handleUpload's finally.
UploadFileDone(i) ==
  /\ Answered(i, "files")
  /\ IF net[i].ok
       THEN /\ fetched < MaxFetches
            /\ toast' = SetState(toast, IF net[i].files = {"cad"} THEN "CAD file uploaded"
                                                                  ELSE "CAM file uploaded")
            /\ RefreshPartsFrom(RemoveAt(net, i), TRUE)
       ELSE /\ toast' = SetState(toast, OrElse(net[i].detail, "Upload failed"))
            /\ net' = RemoveAt(net, i)
            /\ UNCHANGED <<loading, sent, fetched>>
  /\ uploading' = IF net[i].live THEN SetState(uploading, uploading \ net[i].files)
                                 ELSE uploading
  /\ UNCHANGED <<laneOnly, role, phase, draggingId, drag, otherEdits, parts,
                   drawerPart, form, drawerInParts, etaModal, transfer, dragSource,
                   attached, srvParts, viewPrefs, saving, stored, lookups, filters,
                   modalOpen, submitting, ops, viewOps>>

\* PartCard onOpen: setDrawerPart(part).  A PartDrawer that mounts starts from
\* toEditable(part), one that is handed another part object resets its form to
\* it (useEffect on [part]); the card of the object the drawer already shows
\* changes nothing.
OpenDrawer(k) ==
  /\ Interactive /\ Op /\ Rendered(k)
  /\ drawerPart' = parts[k]
  /\ form' = IF drawerInParts /\ drawerPart.id = parts[k].id THEN form
                                                             ELSE ToEditable(parts[k])
  /\ drawerInParts' = TRUE
  /\ UNCHANGED <<laneOnly, role, phase, loading, draggingId, drag, net, sent,
                   otherEdits, parts, etaModal, toast, transfer, dragSource, attached,
                   srvParts, fetched, viewPrefs, saving, stored, lookups, filters,
                   modalOpen, submitting, uploading, viewOps>>

\* PartDrawer onClose
CloseDrawer ==
  /\ Interactive /\ Op /\ drawerPart # NullPart
  /\ drawerPart' = NullPart
  /\ form' = NoForm
  /\ drawerInParts' = FALSE
  /\ saving' = FALSE
  /\ uploading' = {}
  /\ net' = Unmounted(net, {"save", "files"})
  /\ UNCHANGED <<laneOnly, role, phase, loading, draggingId, drag, sent, otherEdits,
                   parts, etaModal, toast, transfer, dragSource, attached, srvParts,
                   fetched, viewPrefs, stored, lookups, filters, modalOpen, submitting,
                   viewOps>>

\* The people an AssigneePicker offers: studentOptions, leadOptions.
PickerFields == {"assigned_student_ids", "assigned_lead_ids"}
Options(field) ==
  {lookups[k].id : k \in {j \in 1..Len(lookups) :
                            (lookups[j].role = "student") = (field = "assigned_student_ids")}}

\* AssigneePicker.addPerson: a suggestion is clicked, handleChange(field, ids)
\* sets the form's list.  The pickers are rendered for isLead.
AddPerson(field, id) ==
  /\ Interactive /\ IsLead /\ drawerPart # NullPart
  /\ id \in Options(field) \ form[field]
  /\ form' = [form EXCEPT ![field] = @ \cup {id}]
  /\ UNCHANGED <<laneOnly, role, phase, loading, draggingId, drag, net, sent,
                   otherEdits, parts, drawerPart, drawerInParts, etaModal, toast,
                   transfer, dragSource, attached, srvParts, fetched, viewPrefs,
                   saving, stored, lookups, filters, modalOpen, submitting, uploading,
                   ops, viewOps>>

\* AssigneePicker.removePerson: the button of a chip is clicked.
RemovePerson(field, id) ==
  /\ Interactive /\ IsLead /\ drawerPart # NullPart
  /\ id \in form[field]
  /\ form' = [form EXCEPT ![field] = @ \ {id}]
  /\ UNCHANGED <<laneOnly, role, phase, loading, draggingId, drag, net, sent,
                   otherEdits, parts, drawerPart, drawerInParts, etaModal, toast,
                   transfer, dragSource, attached, srvParts, fetched, viewPrefs,
                   saving, stored, lookups, filters, modalOpen, submitting, uploading,
                   ops, viewOps>>

\* PartDrawer "Update Stage": onStatusChange(status) with the stage selected.
UpdateStage(status) ==
  /\ Interactive /\ Op /\ MayMutate /\ drawerPart # NullPart
  /\ MovePart(drawerPart.id, status)
  /\ UNCHANGED <<laneOnly, role, phase, loading, draggingId, drag, otherEdits, parts,
                   drawerPart, form, drawerInParts, etaModal, toast, transfer,
                   dragSource, attached, srvParts, fetched, viewPrefs, saving, stored,
                   lookups, filters, modalOpen, submitting, uploading, viewOps>>

\* PartCard onDragStart.  A card with can_move false is not draggable: a drag
\* that begins on a link inside it reaches the handler, which returns, and the
\* browser carries the link's URL as text/plain.
CardDragStart(k) ==
  /\ Interactive /\ Op /\ Rendered(k)
  /\ drag' = "active"
  /\ dragSource' = parts[k].id
  /\ attached' = TRUE
  /\ IF parts[k].can_move
       THEN draggingId' = parts[k].id /\ transfer' = parts[k].id
       ELSE draggingId' = draggingId /\ transfer' = NaN
  /\ UNCHANGED <<laneOnly, role, phase, loading, net, sent, otherEdits, parts,
                   drawerPart, form, drawerInParts, etaModal, toast, srvParts, fetched,
                   viewPrefs, saving, stored, lookups, filters, modalOpen, submitting,
                   uploading, viewOps>>

\* A drag that begins outside the cards (a file, a text selection): the
\* Number() of its text/plain is NaN, 0 for no text, or the number it reads.
ForeignDragStart(n) ==
  /\ Interactive /\ Op
  /\ drag' = "active"
  /\ dragSource' = NULL
  /\ transfer' = n
  /\ UNCHANGED <<laneOnly, role, phase, loading, draggingId, net, sent, otherEdits,
                   parts, drawerPart, form, drawerInParts, etaModal, toast, attached,
                   srvParts, fetched, viewPrefs, saving, stored, lookups, filters,
                   modalOpen, submitting, uploading, viewOps>>

\* column onDragOver: the browser delivers a drop only where the last dragover
\* was preventDefault()ed.
ColumnAccepts == draggingId # NULL

\* column onDrop
ColumnDrop(status) ==
  /\ phase = "mounted" /\ drag = "active"
  /\ ColumnAccepts
  /\ LET partId == IF draggingId # NULL THEN draggingId ELSE transfer
     IN  IF partId # NaN
           THEN MayMutate /\ MovePart(partId, status)
           ELSE UNCHANGED <<net, sent>>
  /\ draggingId' = NULL
  /\ drag' = "dropped"
  /\ UNCHANGED <<laneOnly, role, phase, loading, otherEdits, parts, drawerPart, form,
                   drawerInParts, etaModal, toast, transfer, dragSource, attached,
                   srvParts, fetched, viewPrefs, saving, stored, lookups, filters,
                   modalOpen, submitting, uploading, ops, viewOps>>

\* The browser's drag operation ends: PartCard onDragEnd, when the dragend
\* fired at the card's node bubbles to the document.
CardDragEnd ==
  /\ phase = "mounted" /\ drag \in {"active", "dropped"}
  /\ draggingId' = IF dragSource # NULL /\ attached THEN NULL ELSE draggingId
  /\ drag' = "none"
  /\ dragSource' = NULL
  /\ attached' = TRUE
  /\ transfer' = NULL
  /\ UNCHANGED <<laneOnly, role, phase, loading, net, sent, otherEdits, parts,
                   drawerPart, form, drawerInParts, etaModal, toast, srvParts, fetched,
                   viewPrefs, saving, stored, lookups, filters, modalOpen, submitting,
                   uploading, ops, viewOps>>


\* setEtaModal({ part, mode }): EtaModal keeps its state (busy) while one is open.
SetEtaModal(part, mode) ==
  etaModal' = [part |-> part, mode |-> mode, busy |-> etaModal.busy]

\* PartCard "Claim", had it posted the claim itself.
OnClaimDirect(k) ==
  /\ Interactive /\ Op /\ Rendered(k) /\ MayMutate
  /\ SessionUserId \notin parts[k].assigned_students
  /\ net' = Append(net, BoardReq("partclaim", parts[k].id, NullStr, NullStr, FALSE, FALSE))
  /\ sent' = sent + 1
  /\ UNCHANGED <<laneOnly, role, phase, loading, draggingId, drag, otherEdits, parts,
                   drawerPart, form, drawerInParts, etaModal, toast, transfer,
                   dragSource, attached, srvParts, fetched, viewPrefs, saving, stored,
                   lookups, filters, modalOpen, submitting, uploading, viewOps>>

\* The Claim button of a card is rendered unless the user is among the
\* assigned students; the drawer's is always rendered.
ClaimOfferedOnCard(part) == SessionUserId \notin part.assigned_students
ClaimOfferedInDrawer == drawerPart # NullPart

\* PartCard "Claim"
OnClaim(k) ==
  /\ Interactive /\ Op /\ Rendered(k)
  /\ ClaimOfferedOnCard(parts[k])
  /\ SetEtaModal(parts[k], "claim")
  /\ UNCHANGED <<laneOnly, role, phase, loading, draggingId, drag, net, sent,
                   otherEdits, parts, drawerPart, form, drawerInParts, toast, transfer,
                   dragSource, attached, srvParts, fetched, viewPrefs, saving, stored,
                   lookups, filters, modalOpen, submitting, uploading, viewOps>>

\* PartDrawer "Claim"
OnClaimDrawer ==
  /\ Interactive /\ Op /\ ClaimOfferedInDrawer
  /\ SetEtaModal(drawerPart, "claim")
  /\ UNCHANGED <<laneOnly, role, phase, loading, draggingId, drag, net, sent,
                   otherEdits, parts, drawerPart, form, drawerInParts, toast, transfer,
                   dragSource, attached, srvParts, fetched, viewPrefs, saving, stored,
                   lookups, filters, modalOpen, submitting, uploading, viewOps>>

\* PartCard "Update ETA": canEditEta
OnRequestEtaUpdate(k) ==
  /\ Interactive /\ Op /\ Rendered(k)
  /\ IsLead \/ IsMyPart(parts[k])
  /\ SetEtaModal(parts[k], "edit")
  /\ UNCHANGED <<laneOnly, role, phase, loading, draggingId, drag, net, sent,
                   otherEdits, parts, drawerPart, form, drawerInParts, toast, transfer,
                   dragSource, attached, srvParts, fetched, viewPrefs, saving, stored,
                   lookups, filters, modalOpen, submitting, uploading, viewOps>>

\* EtaModal onClose
CloseEtaModal ==
  /\ Interactive /\ Op /\ etaModal # NullModal
  /\ etaModal' = NullModal
  /\ net' = Unmounted(net, EtaKinds)
  /\ UNCHANGED <<laneOnly, role, phase, loading, draggingId, drag, sent, otherEdits,
                   parts, drawerPart, form, drawerInParts, toast, transfer, dragSource,
                   attached, srvParts, fetched, viewPrefs, saving, stored, lookups,
                   filters, modalOpen, submitting, uploading, viewOps>>

\* EtaModal.handleSubmit, then handleEtaSubmit(etaModal, iso, note) up to its await.
EtaSubmit(date, time) ==
  /\ Interactive /\ Op /\ etaModal # NullModal /\ ~etaModal.busy
  /\ LET target == NewDate(date, time)
     IN  IF date = "" \/ time = "" \/ target.time = NaN
           THEN UNCHANGED <<etaModal, net, sent>>
           ELSE /\ MayMutate
                /\ etaModal' = [etaModal EXCEPT !.busy = TRUE]
                /\ net' = Append(net,
                                 BoardReq(IF etaModal.mode = "claim" THEN "partclaim" ELSE "eta",
                                          etaModal.part.id, NullStr, target.iso, FALSE,
                                          TRUE))
                /\ sent' = sent + 1
  /\ UNCHANGED <<laneOnly, role, phase, loading, draggingId, drag, otherEdits, parts,
                   drawerPart, form, drawerInParts, toast, transfer, dragSource,
                   attached, srvParts, fetched, viewPrefs, saving, stored, lookups,
                   filters, modalOpen, submitting, uploading, viewOps>>

\* handleEtaSubmit from its await on, then handleSubmit's finally.
EtaSubmitDone(i) ==
  /\ Answered(i, "partclaim") \/ Answered(i, "eta")
  /\ IF net[i].ok
       THEN /\ UpdatePartInState(net[i].data)
            /\ etaModal' = SetState(etaModal, NullModal)
            /\ net' = Unmounted(RemoveAt(net, i), EtaKinds)
            /\ toast' = SetState(toast, IF net[i].kind = "partclaim"
                                          THEN "Part claimed" ELSE "ETA updated")
       ELSE /\ toast' = SetState(toast, OrElse(net[i].detail, "Unable to save ETA"))
            /\ etaModal' = IF net[i].live
                             THEN SetState(etaModal, [etaModal EXCEPT !.busy = FALSE])
                             ELSE etaModal
            /\ net' = RemoveAt(net, i)
            /\ UNCHANGED <<parts, drawerPart, form, drawerInParts, attached>>
  /\ UNCHANGED <<laneOnly, role, phase, loading, draggingId, drag, sent, otherEdits,
                   transfer, dragSource, srvParts, fetched, viewPrefs, saving, stored,
                   lookups, filters, modalOpen, submitting, uploading, ops, viewOps>>

\* PartDrawer "Update ETA" / "Set ETA": canUpdateEta
OnRequestEtaUpdateDrawer ==
  /\ Interactive /\ Op /\ drawerPart # NullPart
  /\ \/ IsLead
     \/ SessionUserId \in drawerPart.assigned_students
     \/ SessionUserId \in drawerPart.assigned_leads
  /\ SetEtaModal(drawerPart, "edit")
  /\ UNCHANGED <<laneOnly, role, phase, loading, draggingId, drag, net, sent,
                   otherEdits, parts, drawerPart, form, drawerInParts, toast, transfer,
                   dragSource, attached, srvParts, fetched, viewPrefs, saving, stored,
                   lookups, filters, modalOpen, submitting, uploading, viewOps>>

\* The Release button of a card is rendered for isOwner; the drawer's always.
ReleaseOfferedOnCard(part) == SessionUserId \in part.assigned_students
ReleaseOfferedInDrawer == drawerPart # NullPart

\* releasePart(partId), up to its await.
ReleasePart(partId) ==
  /\ net' = Append(net, BoardReq("release", partId, NullStr, NullStr, FALSE, FALSE))
  /\ sent' = sent + 1

\* PartCard "Release"
OnRelease(k) ==
  /\ Interactive /\ Op /\ Rendered(k) /\ MayMutate
  /\ ReleaseOfferedOnCard(parts[k])
  /\ ReleasePart(parts[k].id)
  /\ UNCHANGED <<laneOnly, role, phase, loading, draggingId, drag, otherEdits, parts,
                   drawerPart, form, drawerInParts, etaModal, toast, transfer,
                   dragSource, attached, srvParts, fetched, viewPrefs, saving, stored,
                   lookups, filters, modalOpen, submitting, uploading, viewOps>>

\* PartDrawer "Release"
OnReleaseDrawer ==
  /\ Interactive /\ Op /\ ReleaseOfferedInDrawer /\ MayMutate
  /\ ReleasePart(drawerPart.id)
  /\ UNCHANGED <<laneOnly, role, phase, loading, draggingId, drag, otherEdits, parts,
                   drawerPart, form, drawerInParts, etaModal, toast, transfer,
                   dragSource, attached, srvParts, fetched, viewPrefs, saving, stored,
                   lookups, filters, modalOpen, submitting, uploading, viewOps>>

\* releasePart from its await on.
ReleasePartDone(i) ==
  /\ Answered(i, "release")
  /\ net' = RemoveAt(net, i)
  /\ IF net[i].ok
       THEN UpdatePartInState(net[i].data) /\ UNCHANGED toast
       ELSE /\ toast' = SetState(toast, Coalesce(net[i].detail, "Unable to release part"))
            /\ UNCHANGED <<parts, drawerPart, form, drawerInParts, attached>>
  /\ UNCHANGED <<laneOnly, role, phase, loading, draggingId, drag, sent, otherEdits,
                   etaModal, transfer, dragSource, srvParts, fetched, viewPrefs,
                   saving, stored, lookups, filters, modalOpen, submitting, uploading,
                   ops, viewOps>>

\* canDelete of a card, and the condition of the drawer's Delete Part button.
CanDelete(part) == IsLead \/ part.created_by = SessionUserId

\* Mutant: the request is sent whatever window.confirm returns.
DeletePartUnconfirmed(part, confirmed, requests) ==
  /\ MayMutate
  /\ net' = Append(requests, BoardReq("delete", part.id, NullStr, NullStr, FALSE, FALSE))
  /\ sent' = sent + 1

\* deletePart(part), up to its await: window.confirm returns confirmed.
\* requests: the requests in flight, as the caller's other effects leave them.
DeletePart(part, confirmed, requests) ==
  IF confirmed
    THEN /\ MayMutate
         /\ net' = Append(requests, BoardReq("delete", part.id, NullStr, NullStr, FALSE, FALSE))
         /\ sent' = sent + 1
    ELSE net' = requests /\ UNCHANGED sent

\* PartCard "Delete"
OnDelete(k, confirmed) ==
  /\ Interactive /\ Op /\ Rendered(k)
  /\ CanDelete(parts[k])
  /\ DeletePart(parts[k], confirmed, net)
  /\ UNCHANGED <<laneOnly, role, phase, loading, draggingId, drag, otherEdits, parts,
                   drawerPart, form, drawerInParts, etaModal, toast, transfer,
                   dragSource, attached, srvParts, fetched, viewPrefs, saving, stored,
                   lookups, filters, modalOpen, submitting, uploading, viewOps>>

\* PartDrawer "Delete Part": deletePart(drawerPart); setDrawerPart(null)
OnDeleteDrawer(confirmed) ==
  /\ Interactive /\ Op /\ drawerPart # NullPart
  /\ CanDelete(drawerPart)
  /\ DeletePart(drawerPart, confirmed, Unmounted(net, {"save", "files"}))
  /\ drawerPart' = NullPart
  /\ form' = NoForm
  /\ drawerInParts' = FALSE
  /\ saving' = FALSE
  /\ uploading' = {}
  /\ UNCHANGED <<laneOnly, role, phase, loading, draggingId, drag, otherEdits, parts,
                   etaModal, toast, transfer, dragSource, attached, srvParts, fetched,
                   viewPrefs, stored, lookups, filters, modalOpen, submitting, viewOps>>

\* deletePart from its await on.
DeletePartDone(i) ==
  /\ Answered(i, "delete")
  /\ net' = RemoveAt(net, i)
  /\ IF net[i].ok
       THEN /\ parts' = SetState(parts, SelectSeq(parts, LAMBDA p : p.id # net[i].part))
            /\ drawerInParts' = SetState(drawerInParts,
                                         drawerInParts /\ drawerPart.id # net[i].part)
            /\ attached' = (attached /\ ~Remounted(parts'))
            /\ toast' = SetState(toast, "Part deleted")
       ELSE /\ toast' = SetState(toast, OrElse(net[i].detail, "Unable to delete part"))
            /\ UNCHANGED <<parts, drawerInParts, attached>>
  /\ UNCHANGED <<laneOnly, role, phase, loading, draggingId, drag, sent, otherEdits,
                   drawerPart, form, etaModal, transfer, dragSource, srvParts, fetched,
                   viewPrefs, saving, stored, lookups, filters, modalOpen, submitting,
                   uploading, ops, viewOps>>

\* The keys of the PATCH payload: the lead-only ones are added for isLead.
BaseKeys ==
  {"part_name", "subsystem", "material", "quantity", "cad_link", "notes",
   "material_stock", "cam_link", "cam_student", "cnc_operator", "printer_assignment",
   "slicer_profile", "filament_type", "tool_type", "dimensions", "responsible_student"}
LeadKeys == {"manufacturing_type", "priority", "assigned_student_ids", "assigned_lead_ids"}

\* Mutant: the lead-only keys are sent for every role.
PayloadKeysAll == BaseKeys \cup LeadKeys

PayloadKeys == BaseKeys \cup (IF IsLead THEN LeadKeys ELSE {})

\* PartDrawer.handleSave, up to its await.  The form is rendered for every
\* part; a lead's payload carries the assignees of the form state.
HandleSave ==
  /\ Interactive /\ Op /\ drawerPart # NullPart /\ ~saving /\ MayMutate
  /\ saving' = TRUE
  /\ net' = Append(net, [BoardReq("save", drawerPart.id, NullStr, NullStr, FALSE, TRUE)
                           EXCEPT !.keys = PayloadKeys,
                                  !.students = form.assigned_student_ids,
                                  !.leads = form.assigned_lead_ids])
  /\ sent' = sent + 1
  /\ UNCHANGED <<laneOnly, role, phase, loading, draggingId, drag, otherEdits, parts,
                   drawerPart, form, drawerInParts, etaModal, toast, transfer,
                   dragSource, attached, srvParts, fetched, viewPrefs, stored, lookups,
                   filters, modalOpen, submitting, uploading, viewOps>>

\* handleSave from its await on: onUpdated(res.data), or console.error.
HandleSaveDone(i) ==
  /\ Answered(i, "save")
  /\ net' = RemoveAt(net, i)
  /\ IF net[i].ok
       THEN UpdatePartInState(net[i].data)
       ELSE UNCHANGED <<parts, drawerPart, form, drawerInParts, attached>>
  /\ saving' = IF net[i].live THEN SetState(saving, FALSE) ELSE saving
  /\ UNCHANGED <<laneOnly, role, phase, loading, draggingId, drag, sent, otherEdits,
                   etaModal, toast, transfer, dragSource, srvParts, fetched, viewPrefs,
                   stored, lookups, filters, modalOpen, submitting, uploading, ops,
                   viewOps>>

\* Mutant: the patch's collapsed replaces the stored one.
UpdateViewPrefsOverwrite(patch) ==
  /\ Interactive
  /\ viewPrefs' = SetState(viewPrefs, Spread(viewPrefs, patch))
  /\ stored' = Stringify(viewPrefs')
  /\ UNCHANGED <<laneOnly, role, phase, loading, draggingId, drag, net, sent,
                   otherEdits, parts, drawerPart, form, drawerInParts, etaModal, toast,
                   transfer, dragSource, attached, srvParts, fetched, saving, lookups,
                   filters, modalOpen, submitting, uploading>>

\* updateViewPrefs(patch), and the effect on [viewPrefs] that stores the result
UpdateViewPrefs(patch) ==
  /\ Interactive
  /\ viewPrefs' = SetState(viewPrefs, Merged(viewPrefs, patch))
  /\ stored' = Stringify(viewPrefs')
  /\ UNCHANGED <<laneOnly, role, phase, loading, draggingId, drag, net, sent,
                   otherEdits, parts, drawerPart, form, drawerInParts, etaModal, toast,
                   transfer, dragSource, attached, srvParts, fetched, saving, lookups,
                   filters, modalOpen, submitting, uploading>>

\* The patches of the view toggles, and of the collapse buttons of the columns
\* given.
TogglePatches(columns) ==
  {One(key, Bool(~ToBoolean(Get(viewPrefs, key)))) :
     key \in {"onlyMine", "onlyUrgent", "hideOldCompleted", "compactMode"}}
    \cup {One("collapsed",
              One(status, Bool(~ToBoolean(Get(Get(viewPrefs, "collapsed"), status))))) :
            status \in columns}

\* Those patches, and patches that name two keys.
PatchInputs ==
  TogglePatches(Statuses)
    \cup {Object(<<"onlyMine", "collapsed">>,
                 [onlyMine |-> Bool(b), collapsed |-> One(status, Bool(b))]) :
            b \in BOOLEAN, status \in Statuses}
    \cup {Object(<<"compactMode", "collapsed">>,
                 [compactMode |-> Bool(TRUE), collapsed |-> EmptyObject])}

\* The parent renders another tab: effect cleanups run, setters become no-ops.
BoardUnmount ==
  /\ Interactive /\ Op
  /\ phase' = "unmounted"
  /\ UNCHANGED <<laneOnly, role, loading, draggingId, drag, net, sent, otherEdits,
                   parts, drawerPart, form, drawerInParts, etaModal, toast, transfer,
                   dragSource, attached, srvParts, fetched, viewPrefs, saving, stored,
                   lookups, filters, modalOpen, submitting, uploading, viewOps>>

\* --------------------------------------------------------- board backend
SrvIndex(id) == {k \in 1..Len(srvParts) : srvParts[k].id = id}

\* The request fails with the detail given.
Fail(i, detail) ==
  net' = [net EXCEPT ![i].phase = "answered", ![i].ok = FALSE, ![i].detail = detail]

\* The details that make a difference to the handler of a failed request:
\* those of lookups and of a save read none, a handler with || takes an empty
\* detail for none, and the text is that of the backend's refusals, except
\* for the list of parts and for a new part, which the backend modelled does
\* not refuse.
DetailsFor(kind) ==
  CASE kind \in {"status", "release"} -> {NoDetail, ""}
    [] kind \in {"parts", "create"} -> {NoDetail, Refusal}
    [] OTHER -> {NoDetail}

\* A request of the board fails without the backend's doing: no response, or
\* a response with a detail.
BoardReject(i, detail) ==
  /\ Sent(i)
  /\ detail \in DetailsFor(net[i].kind)
  /\ Fail(i, detail)
  /\ UNCHANGED <<laneOnly, role, phase, loading, draggingId, drag, sent, otherEdits,
                   parts, drawerPart, form, drawerInParts, etaModal, toast, transfer,
                   dragSource, attached, srvParts, fetched, viewPrefs, saving, stored,
                   lookups, filters, modalOpen, submitting, uploading, ops, viewOps>>

\* GET manufacturing/lookups: the users that can be assigned.
SrvLookups == <<[id |-> 1, role |-> "lead"], [id |-> SessionUserId, role |-> "student"]>>
ServerLookups(i) ==
  /\ Sent(i) /\ net[i].kind = "lookups"
  /\ Answer(i, TRUE, SrvLookups)
  /\ UNCHANGED <<laneOnly, role, phase, loading, draggingId, drag, sent, otherEdits,
                   parts, drawerPart, form, drawerInParts, etaModal, toast, transfer,
                   dragSource, attached, srvParts, fetched, viewPrefs, saving, stored,
                   lookups, filters, modalOpen, submitting, uploading, ops, viewOps>>

\* GET manufacturing/parts
ServerParts(i) ==
  /\ Sent(i) /\ net[i].kind = "parts"
  /\ Answer(i, TRUE, srvParts)
  /\ UNCHANGED <<laneOnly, role, phase, loading, draggingId, drag, sent, otherEdits,
                   parts, drawerPart, form, drawerInParts, etaModal, toast, transfer,
                   dragSource, attached, srvParts, fetched, viewPrefs, saving, stored,
                   lookups, filters, modalOpen, submitting, uploading, ops, viewOps>>

\* POST manufacturing/parts/{id}/status: rejected for a part that is locked or
\* that the user may not move, and for an id that names no part.
ServerStatus(i) ==
  /\ Sent(i) /\ net[i].kind = "status"
  /\ IF \E k \in SrvIndex(net[i].part) : ~srvParts[k].status_locked /\ srvParts[k].can_move
       THEN LET k == CHOOSE k \in SrvIndex(net[i].part) : TRUE
                next == [srvParts[k] EXCEPT !.status = net[i].status, !.updated_at = Today]
            IN  /\ srvParts' = [srvParts EXCEPT ![k] = next]
                /\ Answer(i, TRUE, next)
       ELSE /\ Fail(i, Refusal)
            /\ UNCHANGED srvParts
  /\ UNCHANGED <<laneOnly, role, phase, loading, draggingId, drag, sent, otherEdits,
                   parts, drawerPart, form, drawerInParts, etaModal, toast, transfer,
                   dragSource, attached, fetched, viewPrefs, saving, stored, lookups,
                   filters, modalOpen, submitting, uploading, ops, viewOps>>

\* POST manufacturing/parts/{id}/claim {eta_target, eta_note}
ServerPartClaim(i) ==
  /\ Sent(i) /\ net[i].kind = "partclaim"
  /\ IF SrvIndex(net[i].part) # {} /\ net[i].eta_target # NullStr
       THEN LET k == CHOOSE k \in SrvIndex(net[i].part) : TRUE
                next == [srvParts[k] EXCEPT
                           !.assigned_students = @ \cup {SessionUserId},
                           !.eta_target = net[i].eta_target, !.updated_at = Today]
            IN  /\ srvParts' = [srvParts EXCEPT ![k] = next]
                /\ Answer(i, TRUE, next)
       ELSE /\ Fail(i, Refusal)
            /\ UNCHANGED srvParts
  /\ UNCHANGED <<laneOnly, role, phase, loading, draggingId, drag, sent, otherEdits,
                   parts, drawerPart, form, drawerInParts, etaModal, toast, transfer,
                   dragSource, attached, fetched, viewPrefs, saving, stored, lookups,
                   filters, modalOpen, submitting, uploading, ops, viewOps>>

\* POST manufacturing/parts/{id}/eta {eta_target, eta_note}
ServerEta(i) ==
  /\ Sent(i) /\ net[i].kind = "eta"
  /\ IF SrvIndex(net[i].part) # {}
       THEN LET k == CHOOSE k \in SrvIndex(net[i].part) : TRUE
                next == [srvParts[k] EXCEPT !.eta_target = net[i].eta_target,
                                            !.updated_at = Today]
            IN  /\ srvParts' = [srvParts EXCEPT ![k] = next]
                /\ Answer(i, TRUE, next)
       ELSE /\ Fail(i, Refusal)
            /\ UNCHANGED srvParts
  /\ UNCHANGED <<laneOnly, role, phase, loading, draggingId, drag, sent, otherEdits,
                   parts, drawerPart, form, drawerInParts, etaModal, toast, transfer,
                   dragSource, attached, fetched, viewPrefs, saving, stored, lookups,
                   filters, modalOpen, submitting, uploading, ops, viewOps>>

\* POST manufacturing/parts/{id}/unclaim: removes the user from the students.
ServerPartUnclaim(i) ==
  /\ Sent(i) /\ net[i].kind = "release"
  /\ IF SrvIndex(net[i].part) # {}
       THEN LET k == CHOOSE k \in SrvIndex(net[i].part) : TRUE
                next == [srvParts[k] EXCEPT !.assigned_students = @ \ {SessionUserId},
                                            !.updated_at = Today]
            IN  /\ srvParts' = [srvParts EXCEPT ![k] = next]
                /\ Answer(i, TRUE, next)
       ELSE /\ Fail(i, Refusal)
            /\ UNCHANGED srvParts
  /\ UNCHANGED <<laneOnly, role, phase, loading, draggingId, drag, sent, otherEdits,
                   parts, drawerPart, form, drawerInParts, etaModal, toast, transfer,
                   dragSource, attached, fetched, viewPrefs, saving, stored, lookups,
                   filters, modalOpen, submitting, uploading, ops, viewOps>>

\* DELETE manufacturing/parts/{id}: permitted to the creator and to leads.
ServerPartDelete(i) ==
  /\ Sent(i) /\ net[i].kind = "delete"
  /\ IF \E k \in SrvIndex(net[i].part) : IsLead \/ srvParts[k].created_by = SessionUserId
       THEN /\ srvParts' = SelectSeq(srvParts, LAMBDA p : p.id # net[i].part)
            /\ Answer(i, TRUE, <<>>)
       ELSE /\ Fail(i, Refusal)
            /\ UNCHANGED srvParts
  /\ UNCHANGED <<laneOnly, role, phase, loading, draggingId, drag, sent, otherEdits,
                   parts, drawerPart, form, drawerInParts, etaModal, toast, transfer,
                   dragSource, attached, fetched, viewPrefs, saving, stored, lookups,
                   filters, modalOpen, submitting, uploading, ops, viewOps>>

\* PATCH manufacturing/parts/{id}: permitted where can_edit holds; the
\* assignments are set when the payload carries them.
ServerSave(i) ==
  /\ Sent(i) /\ net[i].kind = "save"
  /\ IF \E k \in SrvIndex(net[i].part) : srvParts[k].can_edit
       THEN LET k == CHOOSE k \in SrvIndex(net[i].part) : TRUE
                next == IF "assigned_student_ids" \in net[i].keys
                          THEN [srvParts[k] EXCEPT !.assigned_students = net[i].students,
                                                   !.assigned_leads = net[i].leads,
                                                   !.updated_at = Today]
                          ELSE [srvParts[k] EXCEPT !.updated_at = Today]
            IN  /\ srvParts' = [srvParts EXCEPT ![k] = next]
                /\ Answer(i, TRUE, next)
       ELSE /\ Fail(i, Refusal)
            /\ UNCHANGED srvParts
  /\ UNCHANGED <<laneOnly, role, phase, loading, draggingId, drag, sent, otherEdits,
                   parts, drawerPart, form, drawerInParts, etaModal, toast, transfer,
                   dragSource, attached, fetched, viewPrefs, saving, stored, lookups,
                   filters, modalOpen, submitting, uploading, ops, viewOps>>

\* POST manufacturing/parts: the part is created at the first stage, with the
\* session's user as its creator, and as a lead of it when the payload names
\* the leads.
ServerCreate(i) ==
  /\ Sent(i) /\ net[i].kind = "create"
  /\ LET ids == PartIds \cup {srvParts[k].id : k \in 1..Len(srvParts)}
         id == 1 + CHOOSE n \in ids : \A m \in ids : m <= n
         next == [Part(id, "design_submitted", FALSE, TRUE, TRUE, {},
                       IF "assigned_lead_ids" \in net[i].keys THEN {SessionUserId} ELSE {},
                       SessionUserId, NullStr)
                    EXCEPT !.part_name = net[i].name]
     IN  /\ srvParts' = Append(srvParts, next)
         /\ Answer(i, TRUE, next)
  /\ UNCHANGED <<laneOnly, role, phase, loading, draggingId, drag, sent, otherEdits,
                   parts, drawerPart, form, drawerInParts, etaModal, toast, transfer,
                   dragSource, attached, fetched, viewPrefs, saving, stored, lookups,
                   filters, modalOpen, submitting, uploading, ops, viewOps>>

\* POST manufacturing/parts/{id}/files
ServerFiles(i) ==
  /\ Sent(i) /\ net[i].kind \in {"files", "createfiles"}
  /\ IF \E k \in SrvIndex(net[i].part) : srvParts[k].can_edit
       THEN LET k == CHOOSE k \in SrvIndex(net[i].part) : TRUE
                next == [srvParts[k] EXCEPT !.updated_at = Today]
            IN  /\ srvParts' = [srvParts EXCEPT ![k] = next]
                /\ Answer(i, TRUE, next)
       ELSE /\ Fail(i, Refusal)
            /\ UNCHANGED srvParts
  /\ UNCHANGED <<laneOnly, role, phase, loading, draggingId, drag, sent, otherEdits,
                   parts, drawerPart, form, drawerInParts, etaModal, toast, transfer,
                   dragSource, attached, fetched, viewPrefs, saving, stored, lookups,
                   filters, modalOpen, submitting, uploading, ops, viewOps>>

\* The backend recomputes a part's lock or the user's right to move it.
OtherPartEdit(k, locked, canMove) ==
  /\ otherEdits < MaxOtherEdits
  /\ k \in 1..Len(srvParts)
  /\ <<locked, canMove>> # <<srvParts[k].status_locked, srvParts[k].can_move>>
  /\ srvParts' = [srvParts EXCEPT ![k].status_locked = locked, ![k].can_move = canMove]
  /\ otherEdits' = otherEdits + 1
  /\ UNCHANGED <<laneOnly, role, phase, loading, draggingId, drag, net, sent, parts,
                   drawerPart, form, drawerInParts, etaModal, toast, transfer,
                   dragSource, attached, fetched, viewPrefs, saving, stored, lookups,
                   filters, modalOpen, submitting, uploading, ops, viewOps>>

\* Another session moves a part to another stage.
OtherPartMove(k, status) ==
  /\ otherEdits < MaxOtherEdits
  /\ k \in 1..Len(srvParts)
  /\ ~srvParts[k].status_locked /\ status # srvParts[k].status
  /\ srvParts' = [srvParts EXCEPT ![k].status = status, ![k].updated_at = Today]
  /\ otherEdits' = otherEdits + 1
  /\ UNCHANGED <<laneOnly, role, phase, loading, draggingId, drag, net, sent, parts,
                   drawerPart, form, drawerInParts, etaModal, toast, transfer,
                   dragSource, attached, fetched, viewPrefs, saving, stored, lookups,
                   filters, modalOpen, submitting, uploading, ops, viewOps>>

\* Another session sets the priority of a part.
OtherPartPriority(k, priority) ==
  /\ otherEdits < MaxOtherEdits
  /\ k \in 1..Len(srvParts)
  /\ priority # srvParts[k].priority
  /\ srvParts' = [srvParts EXCEPT ![k].priority = priority, ![k].updated_at = Today]
  /\ otherEdits' = otherEdits + 1
  /\ UNCHANGED <<laneOnly, role, phase, loading, draggingId, drag, net, sent, parts,
                   drawerPart, form, drawerInParts, etaModal, toast, transfer,
                   dragSource, attached, fetched, viewPrefs, saving, stored, lookups,
                   filters, modalOpen, submitting, uploading, ops, viewOps>>

\* ---------------------------------------------------------- board system
BoardInitWith(raw) ==
  /\ role \in {"student", "lead"}
  /\ shop = HomeShop /\ shopChanges = 0 /\ settled = FALSE
  /\ phase = "created"
  /\ activeJobs = <<>> /\ activeRef = <<>> /\ claimedJobs = <<>>
  /\ loading = TRUE
  /\ dragIndex = NULL /\ draggingId = NULL
  /\ drag = "none"
  /\ net = <<>>
  /\ srvOrder = AllIds
  /\ srvHolder = [j \in JobIds |-> NULL]
  /\ otherEdits = 0
  /\ sent = 0 /\ moves = 0 /\ drags = 0
  /\ gStart = <<>> /\ gExpect = <<>> /\ gClean = TRUE
  /\ dragRow = NULL /\ dropRow = NULL
  /\ uncommitted = FALSE /\ shown = "initial" /\ overrode = FALSE /\ rb = NoRollback
  /\ parts = <<>> /\ drawerPart = NullPart /\ etaModal = NullModal /\ toast = NullStr
  /\ form = NoForm /\ drawerInParts = FALSE
  /\ transfer = NULL /\ dragSource = NULL /\ attached = TRUE
  /\ fetched = 0 /\ lookups = <<>>
  /\ stored = raw /\ viewPrefs = InitialViewPrefs(raw) /\ saving = FALSE
  /\ filters = defaultFilters /\ modalOpen = FALSE /\ submitting = FALSE
  /\ uploading = {} /\ ops = 0 /\ viewOps = 0
  /\ \E locked, canMove \in BOOLEAN, stamp \in {Today, LongAgo} :
       /\ stamp = LongAgo => ~locked /\ canMove
       /\ srvParts =
            [k \in PartIds |->
               IF k <= MaxWorked
                 THEN [Part(k, IF stamp = LongAgo THEN "completed" ELSE "design_submitted",
                            locked, canMove, ~locked, {}, {},
                            IF locked = canMove THEN 1 ELSE SessionUserId, NullStr)
                         EXCEPT !.updated_at = stamp, !.priority = "urgent"]
                 ELSE [Part(k, "design_submitted", FALSE, TRUE, TRUE,
                            {SessionUserId}, {}, 1, NullStr)
                         EXCEPT !.manufacturing_type = "printing", !.part_name = "Hub"]]

\* The board of a browser that holds no stored preferences.
BoardInit == BoardInitWith(NoItem)

\* What the selects and the search box are set to, the columns collapsed or
\* expanded, the part_name typed into the form and the files chosen for it,
\* the file inputs of the drawer, and the priorities other sessions set.
FilterInputs ==
  {<<"type", "all">>, <<"type", "printing">>, <<"priority", "all">>,
   <<"priority", "urgent">>, <<"search", "">>, <<"search", "r A">>}
CollapseInputs == {"completed"}
NameInputs == {"Hub"}
FilesInputs == {{}, {"cad"}}
UploadInputs == {"cad", "cam"}
PriorityInputs == {"normal"}

BoardNext ==
  \/ BoardMountEffect
  \/ BoardPollTick
  \/ BoardRefreshClick
  \/ BoardUnmount
  \/ ToastTimeout
  \/ \E input \in FilterInputs : SetFilters(input[1], input[2])
  \/ Op /\ ViewOp /\ \E patch \in TogglePatches(CollapseInputs) : UpdateViewPrefs(patch)
  \/ OpenCreate
  \/ CloseCreate
  \/ \E name \in NameInputs, files \in FilesInputs : HandleCreate(name, files)
  \/ \E type \in UploadInputs : UploadFile(type)
  \/ \E k \in 1..MaxWorked : OpenDrawer(k)
  \/ CloseDrawer
  \/ \E field \in PickerFields, id \in UserIds : AddPerson(field, id)
  \/ \E field \in PickerFields, id \in UserIds : RemovePerson(field, id)
  \/ \E status \in StageInputs : UpdateStage(status)
  \/ \E k \in 1..MaxWorked : CardDragStart(k)
  \/ \E n \in (1..MaxWorked) \cup {0, NaN} : ForeignDragStart(n)
  \/ \E status \in StageInputs : ColumnDrop(status)
  \/ CardDragEnd
  \/ \E k \in 1..MaxWorked : OnClaim(k)
  \/ OnClaimDrawer
  \/ \E k \in 1..MaxWorked : OnRequestEtaUpdate(k)
  \/ OnRequestEtaUpdateDrawer
  \/ CloseEtaModal
  \/ \E k \in PartIds : OnRelease(k)
  \/ OnReleaseDrawer
  \/ \E k \in 1..MaxWorked, confirmed \in BOOLEAN : OnDelete(k, confirmed)
  \/ \E confirmed \in BOOLEAN : OnDeleteDrawer(confirmed)
  \/ HandleSave
  \/ \E date \in DateInputs, time \in TimeInputs : EtaSubmit(date, time)
  \/ \E i \in 1..MaxInFlight : RefreshPartsDone(i)
  \/ \E i \in 1..MaxInFlight : MovePartDone(i)
  \/ \E i \in 1..MaxInFlight : EtaSubmitDone(i)
  \/ \E i \in 1..MaxInFlight : ReleasePartDone(i)
  \/ \E i \in 1..MaxInFlight : DeletePartDone(i)
  \/ \E i \in 1..MaxInFlight : HandleSaveDone(i)
  \/ \E i \in 1..MaxInFlight : LookupsDone(i)
  \/ \E i \in 1..MaxInFlight : HandleCreateDone(i)
  \/ \E i \in 1..MaxInFlight : CreateFilesDone(i)
  \/ \E i \in 1..MaxInFlight : UploadFileDone(i)
  \/ \E i \in 1..MaxInFlight, detail \in {NoDetail, "", Refusal} : BoardReject(i, detail)
  \/ \E i \in 1..MaxInFlight : ServerParts(i)
  \/ \E i \in 1..MaxInFlight : ServerCreate(i)
  \/ \E i \in 1..MaxInFlight : ServerFiles(i)
  \/ \E i \in 1..MaxInFlight : ServerLookups(i)
  \/ \E i \in 1..MaxInFlight : ServerStatus(i)
  \/ \E i \in 1..MaxInFlight : ServerPartClaim(i)
  \/ \E i \in 1..MaxInFlight : ServerEta(i)
  \/ \E i \in 1..MaxInFlight : ServerPartUnclaim(i)
  \/ \E i \in 1..MaxInFlight : ServerPartDelete(i)
  \/ \E i \in 1..MaxInFlight : ServerSave(i)
  \/ \E k \in 1..MaxWorked, locked, canMove \in BOOLEAN : OtherPartEdit(k, locked, canMove)
  \/ \E k \in 1..MaxWorked, status \in StageInputs : OtherPartMove(k, status)
  \/ \E k \in 1..MaxWorked, priority \in PriorityInputs : OtherPartPriority(k, priority)

BoardSpec == BoardInit /\ [][BoardNext]_vars

\* ------------------------------------------------------ view preferences
PrefsNext ==
  \/ BoardMountEffect
  \/ BoardUnmount
  \/ /\ viewOps < MaxPatches
     /\ \E patch \in PatchInputs : UpdateViewPrefs(patch)
     /\ viewOps' = viewOps + 1
     /\ UNCHANGED ops

PrefsInit == \E raw \in BlobInputs : BoardInitWith(raw)

PrefsSpec == PrefsInit /\ [][PrefsNext]_vars

\* ------------------------------------------------------------- fetches
\* The two components, each from its own initial state and with every step of
\* its own, for a lead: the role every control is rendered for.
OnLane == srvParts = <<>>
OnBoard == srvParts # <<>>

FetchInit == (Init \/ BoardInit) /\ role = "lead"

FetchNext ==
  \/ OnLane /\ Next
  \/ OnBoard /\ BoardNext

FetchSpec == FetchInit /\ [][FetchNext]_vars

\* ---------------------------------------------------------------- claims
Privileged == role \in {"lead", "admin"}

\* The ordered_ids of a list of jobs, and the requests of a kind in flight.
IdList(jobs) == [k \in 1..Len(jobs) |-> jobs[k].id]
OfKind(n, kind) == {k \in 1..Len(n) : n[k].kind = kind}

\* C1: for an actor who is neither lead nor admin, handleDragStart,
\* handleDragOver, handleDrop and moveRow leave the active sequence, dragIndex
\* and draggingId as they are and issue no request; such an actor never has a
\* drag index, a dragging id or a reorder request in flight, and no row ever
\* becomes a drop target for them (handleDragOver cancels no dragover).
C1_PermissionDenial ==
  /\ [](~Privileged =>
          /\ dragIndex = NULL /\ draggingId = NULL /\ dropRow = NULL
          /\ OfKind(net, "reorder") = {})
  /\ [][(/\ ~Privileged
         /\ \/ \E index \in 0..(MaxJobs - 1) : HandleDragStart(index)
            \/ \E index \in 0..(MaxJobs - 1) : HandleDragOver(index)
            \/ HandleDrop
            \/ \E index \in 0..(MaxJobs - 1), delta \in {0 - 1, 1} : MoveRow(index, delta))
        => /\ activeRef' = activeRef /\ activeJobs' = activeJobs
           /\ dragIndex' = dragIndex /\ draggingId' = draggingId
           /\ net' = net]_vars

\* A student's drag, begun on the second row of a lane of two or more rows (its
\* Download link is draggable), is in progress: handleDragStart has returned
\* without taking a drag index.
C1_Witness ==
  /\ role = "student" /\ phase = "mounted" /\ drag = "active"
  /\ Len(activeJobs) >= 2 /\ dragRow = activeJobs[2].id

\* C2: no job with a non-null claimed_by_id is in the active sequence, in the
\* ref and in the rendered state alike.
C2_ClaimExclusivity ==
  /\ \A k \in 1..Len(activeRef) :
       activeRef[k] # Undefined => activeRef[k].claimed_by_id = NULL
  /\ \A k \in 1..Len(activeJobs) :
       activeJobs[k] # Undefined => activeJobs[k].claimed_by_id = NULL

\* A response with claimed and unclaimed jobs was split.
C2_Witness ==
  /\ Len(claimedJobs) >= 1 /\ Len(activeRef) >= 1
  /\ \A k \in 1..Len(claimedJobs) : claimedJobs[k].claimed_by_id # NULL


\* The items of data at the indices idx, in the order of data.
Pick(data, idx) ==
  [n \in 1..Cardinality(idx) |->
     data[CHOOSE k \in idx : Cardinality({j \in idx : j < k}) = n - 1]]
UnclaimedOf(data) == Pick(data, {k \in 1..Len(data) : data[k].claimed_by_id = NULL})
ClaimedOf(data) == Pick(data, {k \in 1..Len(data) : data[k].claimed_by_id # NULL})

\* The lists are those of the response data (the state setters act while the
\* component is mounted).
ShowsResponse(data) ==
  /\ activeRef' = UnclaimedOf(data)
  /\ phase = "mounted" =>
       activeJobs' = UnclaimedOf(data) /\ claimedJobs' = ClaimedOf(data)

ListsUnchanged ==
  activeRef' = activeRef /\ activeJobs' = activeJobs /\ claimedJobs' = claimedJobs

\* C3: when a POST jobs/reorder succeeds, the active sequence becomes the
\* unclaimed items of the response in the response's order and the claimed list
\* its claimed items, whatever the local order was.
C3_CommitSuccessReplaces ==
  [][\A i \in 1..MaxInFlight :
       (PersistOrderDone(i) /\ net[i].ok) => ShowsResponse(net[i].data)]_vars

\* A successful reorder response replaced an order that had been moved locally
\* while the request was in flight and differed from the response.
C3_Witness ==
  phase = "mounted" /\ shown = "reorder" /\ overrode

\* C4 as stated: after the refetch a failed reorder triggers has been applied,
\* the active sequence is the one held before the gesture began.
C4_RollbackRestoresPreGesture ==
  rb.done = "ok" => IdList(activeRef) = rb.pre

\* C4 as amended: the refetch a failed reorder triggers, when it succeeds, sets
\* the active sequence to the unclaimed items of its response in the response's
\* order and the claimed list to its claimed items: it is the sequence held
\* before the gesture exactly when the response lists the unclaimed jobs so.
C4_RollbackShowsServer ==
  [][\A i \in 1..MaxInFlight :
       (RefreshDone(i) /\ net[i].src = "rollback" /\ net[i].ok) =>
         /\ ShowsResponse(net[i].data)
         /\ IdList(activeRef') = net[i].pre <=>
              IdList(UnclaimedOf(net[i].data)) = net[i].pre]_vars

\* The refetch of a failed reorder was applied and shows the order held before
\* the gesture, which the failed request had changed.
C4_Witness ==
  /\ phase = "mounted" /\ rb.done = "ok"
  /\ IdList(activeRef) = rb.pre /\ rb.pre # rb.opt

\* C5: once the refetch a failed reorder triggered has been processed, also
\* when that refetch failed, the lane does not show the optimistic order of the
\* failed request.
C5_NoStaleOptimisticOrder ==
  rb.done # "none" => ~(shown = "local" /\ IdList(activeRef) = rb.opt)

\* C6: during a permitted gesture handleDragStart and handleDragOver issue no
\* request and handleDragOver leaves the claimed list, draggingId and loading
\* alone; no step but the drop adds a reorder request while a gesture holds a
\* drag index; handleDrop appends one POST jobs/reorder whose ordered_ids are the ids
\* of the active sequence at the drop, and resets dragIndex and draggingId.
C6_CommitOnlyAtDrop ==
  [][/\ (\E index \in 0..(MaxJobs - 1) : HandleDragStart(index)) => net' = net
     /\ (\E index \in 0..(MaxJobs - 1) : HandleDragOver(index)) =>
          /\ net' = net /\ claimedJobs' = claimedJobs
          /\ draggingId' = draggingId /\ loading' = loading
     /\ (drag = "active" /\ dragIndex # NULL /\ ~HandleDrop) =>
          Cardinality(OfKind(net', "reorder")) <= Cardinality(OfKind(net, "reorder"))
     /\ (HandleDrop /\ Privileged /\ dragIndex # NULL) =>
          /\ Len(net') = Len(net) + 1
          /\ SubSeq(net', 1, Len(net)) = net
          /\ net'[Len(net')].kind = "reorder"
          /\ net'[Len(net')].ids = IdList(activeRef)
          /\ dragIndex' = NULL /\ draggingId' = NULL]_vars

\* A lead or admin moved a row in a drag and dropped it: the commit is in flight.
C6_Witness ==
  /\ Privileged /\ drag = "dropped" /\ shown = "local"
  /\ Len(net) >= 1 /\ net[Len(net)].src = "drop"
  /\ net[Len(net)].ids = IdList(activeRef) /\ net[Len(net)].ids # gStart

\* C7: when a permitted gesture is over, the order it changed has been sent in
\* a commit.
C7_GestureEndsWithCommit ==
  (phase = "mounted" /\ drag = "none") => ~uncommitted

\* C8: with no response applied during the gesture, the active sequence of a
\* gesture in progress is the order at drag start with the gesture's moves
\* applied one by one as stable moves, the dragged item is at dragIndex, and
\* the drop commits that order.
C8_MovesCompose ==
  (Privileged /\ gClean /\ phase = "mounted") =>
    /\ (drag = "active" /\ dragIndex # NULL) =>
         /\ activeRef = gExpect
         /\ dragIndex \in 0..(Len(activeRef) - 1)
         /\ activeRef[dragIndex + 1].id = draggingId
    /\ drag = "dropped" =>
         /\ Len(net) >= 1
         /\ net[Len(net)].kind = "reorder"
         /\ net[Len(net)].ids = IdList(gExpect)

\* From [A,B,C] the third row was dragged to index 0 and dropped: [C,A,B] is
\* shown and committed.
C8_Witness ==
  /\ gClean /\ drag = "dropped" /\ Len(gStart) = MaxJobs
  /\ \A k \in 1..Len(gStart) : gStart[k] = k
  /\ Len(net) >= 1
  /\ net[Len(net)].ids = [k \in 1..MaxJobs |-> IF k = 1 THEN MaxJobs ELSE k - 1]
  /\ IdList(activeRef) = net[Len(net)].ids

\* s with the items at the indices a and b exchanged.
Swapped(s, a, b) ==
  [k \in 1..Len(s) |-> IF k = a + 1 THEN s[b + 1] ELSE IF k = b + 1 THEN s[a + 1] ELSE s[k]]

\* C9: moveRow(index, delta), delta -1 or +1, by a lead or admin exchanges the
\* item at index with its neighbour and appends one POST jobs/reorder with the
\* new order; at the end of the list it changes nothing and issues nothing.
C9_MoveRow ==
  [][\A index \in 0..(MaxJobs - 1), delta \in {0 - 1, 1} :
       (MoveRow(index, delta) /\ Privileged) =>
         IF index + delta \in 0..(Len(activeRef) - 1)
           THEN /\ activeRef' = Swapped(activeRef, index, index + delta)
                /\ activeJobs' = activeRef'
                /\ Len(net') = Len(net) + 1
                /\ SubSeq(net', 1, Len(net)) = net
                /\ net'[Len(net')].kind = "reorder"
                /\ net'[Len(net')].ids = IdList(activeRef')
           ELSE activeRef' = activeRef /\ activeJobs' = activeJobs /\ net' = net]_vars

\* A button move was made and its commit is in flight.
C9_Witness ==
  /\ Privileged /\ drag = "none" /\ shown = "local"
  /\ Len(net) >= 1 /\ net[Len(net)].src = "moveRow"
  /\ net[Len(net)].ids = IdList(activeRef) /\ net[Len(net)].ids # net[Len(net)].pre

\* C10: claimJob, unclaimJob and removeJob send one request and leave the
\* lists alone; their success issues one refetch, their failure none, and
\* neither changes the lists.
C10_MutationsNotOptimistic ==
  [][/\ \A id \in JobIds :
          (RemoveJob(id) \/ ClaimJob(id) \/ UnclaimJob(id)) =>
            /\ ListsUnchanged
            /\ Len(net') = Len(net) + 1
            /\ SubSeq(net', 1, Len(net)) = net
            /\ net'[Len(net')].kind \in {"delete", "claim", "unclaim"}
            /\ net'[Len(net')].job = id
     /\ \A i \in 1..MaxInFlight :
          (RemoveJobDone(i) \/ ClaimJobDone(i) \/ UnclaimJobDone(i)) =>
            /\ ListsUnchanged
            /\ IF net[i].ok
                 THEN /\ Len(net') = Len(net)
                      /\ SubSeq(net', 1, Len(net) - 1) = RemoveAt(net, i)
                      /\ net'[Len(net')].kind = "get"
                 ELSE net' = RemoveAt(net, i)]_vars

\* A claim succeeded: its refetch is in flight and the lane still shows the
\* job, now claimed on the server, as unclaimed.
C10_Witness ==
  \E i \in 1..Len(net) :
    /\ net[i].kind = "get" /\ net[i].src = "claim"
    /\ \E k \in 1..Len(activeJobs) :
         activeJobs[k] # Undefined /\ srvHolder[activeJobs[k].id] = SessionUserId

\* C11: whenever the active sequence is the one a fetch or commit response was
\* split into, it is sorted ascending by queue_position.
C11_ActiveSortedByPosition ==
  shown \in {"get", "reorder", "rollback"} =>
    \A a, b \in 1..Len(activeRef) :
      a < b => activeRef[a].queue_position <= activeRef[b].queue_position

\* C12: once the response to a later issued request has been applied, the
\* response to an earlier issued request of the lane leaves the lists as they
\* are.
C12_StaleResponseIgnored ==
  [][\A i \in 1..MaxInFlight :
       ((RefreshDone(i) \/ PersistOrderDone(i)) /\ net[i].stale) => ListsUnchanged]_vars

\* C13: at most one fetch of the lane is in flight at a time.
C13_OneFetchInFlight ==
  Cardinality(OfKind(net, "get")) <= 1

\* C14: a poll tick issues no fetch while a reorder of the lane is outstanding.
C14_PollSkippedDuringCommit ==
  [][PollTick => OfKind(net, "reorder") = {}]_vars

\* C15: once the lane is torn down, no step changes the component's lists or
\* its loading flag, and no poll is issued.
C15_NoUpdateAfterTeardown ==
  [][phase = "unmounted" =>
       /\ ListsUnchanged
       /\ loading' = loading
       /\ ~PollTick]_vars

\* C16: after this session has committed an order with the row buttons and
\* another session has changed the lane, once every request is answered and
\* the lane shows a fetch of the server's current (final) state, its active
\* sequence is the server's order.
C16_SettledViewIsServerOrder ==
  (/\ phase = "mounted" /\ net = <<>> /\ shown = "get"
   /\ otherEdits >= 1 /\ moves >= 1 /\ drags = 0
   /\ \E data \in Listings(srvOrder, srvHolder) : activeRef = SplitActive(data))
    => Ids(activeRef) = srvOrder

\* C30: while a drag gesture is active, the item at dragIndex of the active
\* sequence is the item the gesture began on.
C30_DragIndexFollowsItem ==
  dragIndex # NULL =>
    /\ dragIndex < Len(activeRef)
    /\ activeRef[dragIndex + 1].id = draggingId

\* C31: the active sequence, in the ref and as rendered, holds job items only
\* (no undefined slot) with pairwise distinct ids, and the ordered_ids of every
\* reorder request are pairwise distinct ids of jobs.
DistinctIds(ids) == \A a, b \in 1..Len(ids) : ids[a] = ids[b] => a = b
C31_ActiveWellFormed ==
  /\ ~HasUndefined(activeRef) /\ ~HasUndefined(activeJobs)
  /\ DistinctIds(IdList(activeRef)) /\ DistinctIds(IdList(activeJobs))
  /\ \A i \in OfKind(net, "reorder") :
       DistinctIds(net[i].ids) /\ \A k \in 1..Len(net[i].ids) : net[i].ids[k] \in JobIds

\* C32: while the lane is rendered, its loading flag is true exactly when one
\* of its fetches is in flight.
C32_LoadingWhileFetching ==
  phase = "mounted" => (loading <=> OfKind(net, "get") # {})

\* C33: once a response to a request issued for the current shop has been
\* applied after the shop prop last changed, the displayed active and claimed
\* lists hold only jobs of the current shop.
ShownJobs ==
  {activeRef[n] : n \in 1..Len(activeRef)} \cup {activeJobs[n] : n \in 1..Len(activeJobs)}
    \cup {claimedJobs[n] : n \in 1..Len(claimedJobs)}
C33_OnlyCurrentShopShown ==
  (phase = "mounted" /\ settled) => \A job \in ShownJobs : ShopOfJob(job.id) = shop

\* ---------------------------------------------------------- board claims
\* The request a step adds to the requests in flight, and the copies the
\* client holds of a part (the board's list and the open drawer).
Issued(kind) == Len(net') = Len(net) + 1 /\ net'[Len(net')].kind = kind
ClientCopies(id) ==
  {parts[k] : k \in {k \in 1..Len(parts) : parts[k].id = id}}
    \cup (IF drawerPart # NullPart /\ drawerPart.id = id THEN {drawerPart} ELSE {})

\* C17: a status request is issued only for a part of which the client holds a
\* copy, and every copy it holds has can_move true and status_locked false.
C17_StatusOnlyForMovableUnlocked ==
  [][Issued("status") =>
       /\ ClientCopies(net'[Len(net')].part) # {}
       /\ \A p \in ClientCopies(net'[Len(net')].part) : p.can_move /\ ~p.status_locked]_vars

StatusOf(list) == [k \in 1..Len(list) |-> list[k].status]

\* C18: a stage change requested for a part whose copy has status_locked true
\* is rejected, whatever the role and the control (the drawer's Update Stage, a
\* column drop): no status request is issued for such a part; issuing a stage
\* change does not change the stages shown, and neither does the arrival of a
\* rejection.
C18_LockedPartKeepsStatus ==
  [][/\ Issued("status") =>
          /\ \A p \in ClientCopies(net'[Len(net')].part) : ~p.status_locked
          /\ StatusOf(parts') = StatusOf(parts) /\ drawerPart'.status = drawerPart.status
     /\ \A i \in 1..MaxInFlight :
          (MovePartDone(i) /\ ~net[i].ok)
            => StatusOf(parts') = StatusOf(parts) /\ drawerPart'.status = drawerPart.status]_vars

\* C19: a column drop happens only while draggingId is non-null, and the one
\* request it issues is for the part whose card the drag began on and carries
\* the column's status.
C19_DropMovesTheDraggedPart ==
  [][\A status \in Statuses :
       ColumnDrop(status) =>
         /\ draggingId # NULL
         /\ Issued("status")
         /\ net'[Len(net')].part = dragSource
         /\ net'[Len(net')].status = status]_vars

\* The timestamps the date and time inputs can denote.
ValidTimestamps ==
  {NewDate(x[1], x[2]).iso :
     x \in {y \in DateInputs \X TimeInputs : NewDate(y[1], y[2]).time # NaN}}

\* C20: a claim request is issued only while the ETA step is open in claim
\* mode, for the part that step was opened on, and carries a valid timestamp
\* as its eta_target.
C20_ClaimCarriesEta ==
  [][Issued("partclaim") =>
       /\ etaModal # NullModal /\ etaModal.mode = "claim"
       /\ net'[Len(net')].part = etaModal.part.id
       /\ net'[Len(net')].eta_target # NullStr
       /\ net'[Len(net')].eta_target \in ValidTimestamps]_vars

\* The part has been claimed through the ETA step: the client shows the user
\* among its students, with the committed timestamp.
C20_Witness ==
  /\ toast = "Part claimed"
  /\ \E k \in 1..Len(parts) :
       /\ SessionUserId \in parts[k].assigned_students
       /\ parts[k].eta_target \in ValidTimestamps

\* C25: updateViewPrefs(patch) leaves every top-level preference the patch
\* does not name at its value, and every collapsed flag whose status the
\* patch's collapsed does not name; the keys it names take the patch's values.
C25_PatchMerges ==
  [][\A patch \in PatchInputs :
       UpdateViewPrefs(patch) =>
         LET before == Get(viewPrefs, "collapsed")
             after == Get(viewPrefs', "collapsed")
             given == Get(patch, "collapsed")
         IN  /\ viewPrefs'.keys = viewPrefs.keys
             /\ after.keys = before.keys
             /\ \A key \in DOMAIN viewPrefs.at \ {"collapsed"} :
                  Get(viewPrefs', key) = IF key \in DOMAIN patch.at THEN patch.at[key]
                                                                    ELSE viewPrefs.at[key]
             /\ \A status \in DOMAIN before.at :
                  Get(after, status) = IF status \in DOMAIN given.at THEN given.at[status]
                                                                     ELSE before.at[status]]_vars

\* Patches have changed a top-level preference and the collapsed flag of one
\* status, the other four flags being as they were.
C25_Witness ==
  /\ phase = "mounted"
  /\ ToBoolean(Get(viewPrefs, "onlyMine"))
  /\ ToBoolean(Get(Get(viewPrefs, "collapsed"), "in_progress"))
  /\ \A status \in Statuses \ {"in_progress"} :
       Get(Get(viewPrefs, "collapsed"), status)
         = Get(Get(defaultViewPrefs, "collapsed"), status)

\* C21: the Claim action is offered only to a user who is not yet among the
\* part's assigned students, on every card and in the detail drawer.
C21_ClaimOnlyForUnassigned ==
  phase = "mounted" =>
    /\ \A k \in 1..Len(parts) :
         ClaimOfferedOnCard(parts[k]) => SessionUserId \notin parts[k].assigned_students
    /\ ClaimOfferedInDrawer => SessionUserId \notin drawerPart.assigned_students

\* C22: the Release action is offered exactly to leads, admins and the part's
\* assigned students, on every card and in the detail drawer.
CanRelease(part) == IsLead \/ SessionUserId \in part.assigned_students
C22_ReleaseForLeadOrAssignee ==
  phase = "mounted" =>
    /\ \A k \in 1..Len(parts) : ReleaseOfferedOnCard(parts[k]) <=> CanRelease(parts[k])
    /\ drawerPart # NullPart => (ReleaseOfferedInDrawer <=> CanRelease(drawerPart))

\* C23: a DELETE request is issued only by a step in which the confirmation
\* was accepted, and for a part of which the client holds a copy created by
\* the user, unless the user is a lead or admin; a step in which the
\* confirmation is declined issues no request and removes no part.
C23_DeleteOnlyConfirmed ==
  [][/\ Issued("delete") =>
          /\ \E part \in ClientCopies(net'[Len(net')].part) :
               IsLead \/ part.created_by = SessionUserId
          /\ \/ \E k \in 1..Len(parts) : OnDelete(k, TRUE)
             \/ OnDeleteDrawer(TRUE)
     /\ ((\E k \in 1..Len(parts) : OnDelete(k, FALSE)) \/ OnDeleteDrawer(FALSE)) =>
          /\ Len(net') = Len(net) /\ sent' = sent
          /\ parts' = parts /\ srvParts' = srvParts]_vars

C23_Witness ==
  /\ toast = "Part deleted"
  /\ \A k \in 1..Len(parts) : parts[k].id # 1
  /\ \A k \in 1..Len(srvParts) : srvParts[k].id # 1

\* C24: a PATCH of a part's fields is issued only when every copy the client
\* holds of the part has can_edit true.
C24_SaveOnlyWhenCanEdit ==
  [][Issued("save") =>
       /\ ClientCopies(net'[Len(net')].part) # {}
       /\ \A p \in ClientCopies(net'[Len(net')].part) : p.can_edit]_vars

\* C28: when a status change, claim, ETA update, release, delete or field save
\* fails, the step that handles the failure leaves the parts list unchanged and
\* shows a failure toast: the detail of the response or the handler's message.
FailureToasts ==
  {"Unable to move part", "Unable to save ETA", "Unable to release part",
   "Unable to delete part", Refusal}
MutationDone(i) ==
  \/ MovePartDone(i) \/ EtaSubmitDone(i) \/ ReleasePartDone(i)
  \/ DeletePartDone(i) \/ HandleSaveDone(i)
C28_FailuresToasted ==
  [][\A i \in 1..Len(net) :
       (phase = "mounted" /\ ~net[i].ok /\ MutationDone(i)) =>
         parts' = parts /\ toast' \in FailureToasts /\ Shown(toast')]_vars

\* C29: a PATCH sent by a user who is neither lead nor admin carries none of
\* manufacturing_type, priority, assigned_student_ids, assigned_lead_ids.
C29_LeadOnlyKeys ==
  [][(Issued("save") /\ ~IsLead) =>
       net'[Len(net')].keys \cap
         {"manufacturing_type", "priority", "assigned_student_ids",
          "assigned_lead_ids"} = {}]_vars

C29_Witness ==
  /\ ~IsLead
  /\ \E i \in 1..Len(net) :
       net[i].kind = "save" /\ net[i].phase = "answered" /\ net[i].ok
         /\ "part_name" \in net[i].keys

\* C27: when the response of a successful status change, claim, ETA update,
\* release or field save is applied, every entry of the parts list with the
\* returned part's id becomes the returned part, every other entry stays as it
\* was, and a drawer open on that part shows the returned part.
PartResponseApplied(i) ==
  \/ MovePartDone(i) \/ EtaSubmitDone(i) \/ ReleasePartDone(i) \/ HandleSaveDone(i)
C27_ResponseReplacesPart ==
  [][\A i \in 1..Len(net) :
       (phase = "mounted" /\ net[i].ok /\ PartResponseApplied(i)) =>
         /\ Len(parts') = Len(parts)
         /\ \A k \in 1..Len(parts) :
              parts'[k] = IF parts[k].id = net[i].data.id THEN net[i].data ELSE parts[k]
         /\ (drawerPart # NullPart /\ drawerPart.id = net[i].data.id) =>
              drawerPart' = net[i].data
         /\ (drawerPart = NullPart \/ drawerPart.id # net[i].data.id) =>
              drawerPart' = drawerPart]_vars

\* The answer to the session's own status change has been applied: no other
\* session has made an edit, part 1 is at the new stage in the list and in the
\* drawer open on it, and part 2 is as it was.
C27_Witness ==
  /\ phase = "mounted" /\ otherEdits = 0 /\ net = <<>> /\ Len(parts) = 2
  /\ parts[1].id = 1 /\ parts[1].status = "in_progress"
  /\ drawerPart = parts[1]
  /\ parts[2] = srvParts[2] /\ parts[2].id = 2

\* C34: while the detail drawer is open, the list holds a part with the id of
\* the drawer's part and the drawer shows that entry.
C34_DrawerShowsListEntry ==
  (phase = "mounted" /\ drawerPart # NullPart) =>
    /\ \E k \in 1..Len(parts) : parts[k].id = drawerPart.id
    /\ \A k \in 1..Len(parts) : parts[k].id = drawerPart.id => parts[k] = drawerPart

\* C37: draggingId is non-null only while a drag that began on the card of a
\* part with can_move true is in progress: it is null whenever no drag is in
\* progress and after a drop, and a drag in progress that holds it began on a
\* card.
C37_DraggingIdOnlyDuringDrag ==
  phase = "mounted" =>
    /\ drag # "active" => draggingId = NULL
    /\ draggingId # NULL => dragSource = draggingId

\* C35: a step in which the delete confirmation is declined, on a card or in
\* the detail drawer, leaves the board's state as it was, the part the drawer
\* is open on included.
C35_DeclineChangesNothing ==
  [][((\E k \in 1..Len(parts) : OnDelete(k, FALSE)) \/ OnDeleteDrawer(FALSE)) =>
       /\ drawerPart' = drawerPart /\ parts' = parts /\ etaModal' = etaModal
       /\ toast' = toast /\ saving' = saving /\ loading' = loading
       /\ draggingId' = draggingId /\ viewPrefs' = viewPrefs]_vars

\* C38: once the board is rendered, the stored item is the text of viewPrefs:
\* parsing it yields viewPrefs, and so does initialising a board from it.  The
\* board's first viewPrefs are the defaults when nothing or no JSON is stored,
\* and otherwise the stored values, with the default for every key and every
\* collapsed flag the stored value lacks.
C38_StoredPrefsRoundTrip ==
  /\ DOMAIN defaultViewPrefs.at \subseteq DOMAIN viewPrefs.at
  /\ Statuses \subseteq DOMAIN Get(viewPrefs, "collapsed").at
  /\ phase # "created" =>
       /\ stored = Stringify(viewPrefs)
       /\ Parse(stored) = viewPrefs
       /\ InitialViewPrefs(stored) = viewPrefs
  /\ phase = "created" =>
       IF Falsy(stored) \/ stored.kind = "text" THEN viewPrefs = defaultViewPrefs
       ELSE LET parsed == Properties(Parse(stored))
                given == Properties(Get(parsed, "collapsed"))
                flags == Get(viewPrefs, "collapsed")
            IN  /\ DOMAIN viewPrefs.at = DOMAIN defaultViewPrefs.at \cup DOMAIN parsed.at
                /\ \A key \in DOMAIN viewPrefs.at \ {"collapsed"} :
                     viewPrefs.at[key] = IF key \in DOMAIN parsed.at
                                           THEN parsed.at[key]
                                           ELSE defaultViewPrefs.at[key]
                /\ \A status \in DOMAIN flags.at :
                     flags.at[status] = IF status \in DOMAIN given.at
                                          THEN given.at[status]
                                          ELSE defaultViewPrefs.at["collapsed"].at[status]

====
